---- MODULE Spec2Model ----
(***************************************************************************)
(* The kick bomb (core/elements/kick_bomb.rs) and the item protocol        *)
(* (core/item.rs) of the game's simulation core, as a state machine over   *)
(* the component tables of the entity store.  One tick is one pass through *)
(* the stages PreUpdate, Update, PostUpdate and Last; after the systems of *)
(* a stage the stage's command queue is applied.                           *)
(*                                                                         *)
(* Time is counted in whole units: a duration or an elapsed time is a      *)
(* natural number, and every tick advances time by the fixed step delta.   *)
(* Positions and velocities are small integers.                            *)
(***************************************************************************)
EXTENDS Integers, Sequences, FiniteSets, TLC

(***************************************************************************)
(* Bounds of the model.                                                    *)
(***************************************************************************)
\* KickBombMeta.fuse_time and KickBombMeta.arm_delay of the kick bomb asset.
FuseTime == 4
ArmDelay == 2
\* The same of the long-fused asset of the specification SpecLit.
LitFuseTime == 9
LitArmDelay == 8
\* The fixed time step of a run is drawn from 1..MaxDelta.
MaxDelta == 2
\* Entity indices the store can hand out to created entities.
PoolSize == 3

(***************************************************************************)
(* Entities.  Two map-authored spawner slots (one for a kick bomb, one for *)
(* another element), two player slots, and the indices entities.create()   *)
(* uses.  An entity that is gone is never taken for a later one: a         *)
(* reference left to it is moved to the tombstone, which is never live.    *)
(***************************************************************************)
Spawners == {1, 2}
Players == {3, 4}
Pool == 5..(4 + PoolSize)
Tombstones == {0}

\* The element a spawner slot's ElementHandle resolves to.
ElementData(s) == IF s = 1 THEN "kick_bomb" ELSE "crate"

\* Option<T>: None, Some(x).
None == <<>>
Some(x) == <<x>>
IsSome(o) == o # <<>>
Unwrap(o) == o[1]

\* Component tables are functions from the entities that have the component.
Insert(f, e, v) == [x \in (DOMAIN f) \cup {e} |-> IF x = e THEN v ELSE f[x]]
Remove(f, e) == [x \in (DOMAIN f) \ {e} |-> f[x]]
Restrict(f, S) == [x \in (DOMAIN f) \cap S |-> f[x]]
Empty == [x \in {} |-> 0]

Min(a, b) == IF a <= b THEN a ELSE b

\* Entities are iterated by ascending index.
RECURSIVE SetToSeq(_)
SetToSeq(S) ==
  IF S = {} THEN <<>>
  ELSE LET m == CHOOSE x \in S : \A y \in S : x <= y
       IN  <<m>> \o SetToSeq(S \ {m})

(***************************************************************************)
(* Timer (TimerMode::Once): an elapsed-time accumulator compared against a *)
(* fixed duration; the elapsed time stops at the duration.                 *)
(***************************************************************************)
TimerNew(d) == [duration |-> d, elapsed |-> 0]
TimerTick(t, dt) == [t EXCEPT !.elapsed = Min(t.elapsed + dt, t.duration)]
TimerFinished(t) == t.elapsed >= t.duration

(***************************************************************************)
(* Vectors and the metadata of the kick bomb asset.                        *)
(***************************************************************************)
Vec2(x, y) == <<x, y>>
KickVelocity == Vec2(3, 2)
ThrowVelocity == 2
AngularVelocity == 1
DamageRegionSize == Vec2(4, 4)
DamageRegionLifetime == 1
ExplosionLifetime == 1
ExplosionFrames == 3
LitFramesStart == 1
LitFramesEnd == 3
\* Transform of the kick bomb's spawner slot and of the player at start.
SpawnerTransform == [x |-> 1, y |-> 1, z |-> 0, rotation |-> 1]
PlayerTransform == [x |-> 1, y |-> 1, z |-> 0, rotation |-> 0]

VARIABLES
  pc,               \* the next step of the tick's schedule
  meta,             \* KickBombMeta: kickable, explode_on_contact, fuse_time, arm_delay
  delta,            \* Time::delta(), the fixed step of the run
  alive,            \* Entities: the live entities
  killed,           \* Entities: killed during this tick, index not yet reusable
  commands,         \* the command queue of the running stage
  hydrated,         \* MapElementHydrated
  element_handles,  \* ElementHandle
  respawn_points,   \* DehydrateOutOfBounds: entity -> spawner slot
  spawner_manager,  \* SpawnerManager: spawner slot -> spawned entities
  kick_bomb_handles,\* KickBombHandle
  items,            \* Item
  item_throws,      \* ItemThrow
  item_grabs,       \* ItemGrab
  atlas_sprites,    \* AtlasSprite
  animated_sprites, \* AnimatedSprite
  transforms,       \* Transform
  bodies,           \* KinematicBody
  idle_bombs,       \* IdleKickBomb
  lit_bombs,        \* LitKickBomb
  items_used,       \* ItemUsed: item -> owner
  items_grabbed,    \* ItemGrabbed: item -> player
  items_dropped,    \* ItemDropped: item -> player
  drop_items_req,   \* DropItem
  attachments,      \* PlayerBodyAttachment
  inventories,      \* Inventory: player -> Option<Entity>
  player_layers,    \* PlayerLayers: player -> fin_anim
  damage_regions,   \* DamageRegion
  lifetimes,        \* Lifetime
  invincibles,      \* Invincibility
  collision_world,  \* CollisionWorld: entity -> the actors overlapping it, in query order
  player_inputs,    \* MatchInputs: player -> control
  player_states,    \* PlayerState: player -> current state id and age
  animations,       \* AnimationBankSprite: player -> current animation
  system_runs,      \* history: how often each one-shot throw system has run
  audio_center,     \* AudioCenter: sounds pushed and not yet taken by the audio session
  trauma_events,    \* CameraTraumaEvents pushed and not yet taken by the camera
  fault,            \* a panic has aborted the program
  sessions,         \* Game::sessions: session name -> the systems of its First stage
  shared_resources, \* Game: the shared resources initialised
  paths,            \* Path2d: the debug line lists
  rigid_body_set,   \* CollisionWorld.ctx.rigid_body_set: entity -> its collider body
  debug_context,    \* RapierDebugContext: None, or Some(path_entity) once initialised
  debug_settings,   \* DebugSettings resource
  emote_regions,    \* EmoteRegion
  lit_age           \* history: time a Lit bomb has been ticked for since it was lit

vars == <<pc, meta, delta, alive, killed, commands, hydrated, element_handles,
          respawn_points, spawner_manager, kick_bomb_handles, items, item_throws,
          item_grabs, atlas_sprites, animated_sprites, transforms, bodies,
          idle_bombs, lit_bombs, items_used, items_grabbed, items_dropped,
          drop_items_req, attachments, inventories, player_layers, damage_regions,
          lifetimes, invincibles, collision_world, player_inputs, audio_center,
          trauma_events, lit_age, player_states, animations, system_runs,
          fault,
          sessions,
          shared_resources,
          paths,
          rigid_body_set,
          debug_context,
          debug_settings,
          emote_regions>>

\* The store as one value: what a system or a queued command reads and writes.
World ==
  [alive |-> alive, killed |-> killed, commands |-> commands,
   hydrated |-> hydrated, element_handles |-> element_handles,
   respawn_points |-> respawn_points, spawner_manager |-> spawner_manager,
   kick_bomb_handles |-> kick_bomb_handles, items |-> items,
   item_throws |-> item_throws, item_grabs |-> item_grabs,
   atlas_sprites |-> atlas_sprites, animated_sprites |-> animated_sprites,
   transforms |-> transforms, bodies |-> bodies, idle_bombs |-> idle_bombs,
   lit_bombs |-> lit_bombs, items_used |-> items_used,
   items_grabbed |-> items_grabbed, items_dropped |-> items_dropped,
   drop_items_req |-> drop_items_req, attachments |-> attachments,
   inventories |-> inventories, player_layers |-> player_layers,
   damage_regions |-> damage_regions, lifetimes |-> lifetimes,
   invincibles |-> invincibles, collision_world |-> collision_world,
   player_inputs |-> player_inputs, audio_center |-> audio_center,
   trauma_events |-> trauma_events, lit_age |-> lit_age,
   player_states |-> player_states, animations |-> animations,
   system_runs |-> system_runs,
   fault |-> fault,
   paths |-> paths,
   rigid_body_set |-> rigid_body_set,
   debug_context |-> debug_context]

\* The next state holds the store w.
Commit(w) ==
  /\ alive' = w.alive /\ killed' = w.killed /\ commands' = w.commands
  /\ hydrated' = w.hydrated /\ element_handles' = w.element_handles
  /\ respawn_points' = w.respawn_points /\ spawner_manager' = w.spawner_manager
  /\ kick_bomb_handles' = w.kick_bomb_handles /\ items' = w.items
  /\ item_throws' = w.item_throws /\ item_grabs' = w.item_grabs
  /\ atlas_sprites' = w.atlas_sprites /\ animated_sprites' = w.animated_sprites
  /\ transforms' = w.transforms /\ bodies' = w.bodies
  /\ idle_bombs' = w.idle_bombs /\ lit_bombs' = w.lit_bombs
  /\ items_used' = w.items_used /\ items_grabbed' = w.items_grabbed
  /\ items_dropped' = w.items_dropped /\ drop_items_req' = w.drop_items_req
  /\ attachments' = w.attachments /\ inventories' = w.inventories
  /\ player_layers' = w.player_layers /\ damage_regions' = w.damage_regions
  /\ lifetimes' = w.lifetimes /\ invincibles' = w.invincibles
  /\ collision_world' = w.collision_world /\ player_inputs' = w.player_inputs
  /\ audio_center' = w.audio_center /\ trauma_events' = w.trauma_events
  /\ lit_age' = w.lit_age
  /\ player_states' = w.player_states /\ animations' = w.animations
  /\ system_runs' = w.system_runs
  /\ fault' = w.fault
  /\ paths' = w.paths
  /\ rigid_body_set' = w.rigid_body_set
  /\ debug_context' = w.debug_context

(***************************************************************************)
(* Entities::create and Entities::kill.  A created entity takes the lowest *)
(* index that is not live and was not killed during this tick.             *)
(***************************************************************************)
FreeIndices(w) == Pool \ (w.alive \cup w.killed)
NextEntity(w) == CHOOSE x \in FreeIndices(w) : \A y \in FreeIndices(w) : x <= y
Create(w) == [w EXCEPT !.alive = @ \cup {NextEntity(w)}]
Kill(w, e) == [w EXCEPT !.alive = @ \ {e}, !.killed = @ \cup (w.alive \cap {e})]


(***************************************************************************)
(* Static component tables of the map and the player.                      *)
(***************************************************************************)
\* PlayerIdx of each player.
player_indexes == [p \in Players |-> p - 3]
\* SpawnedMapLayerMeta.layer_idx of each spawner slot.
map_layers == [s \in Spawners |-> s]
\* The layers of the player spawners that have a map layer.
player_spawner_layers == {1}
\* z_depth_for_map_layer is defined outside these files: an injective
\* function of the layer index.
z_depth_for_map_layer(layer_idx) == 100 + layer_idx

(***************************************************************************)
(* ItemThrow.  The base vectors in hundredths: (1.5, 1.2) normalised is    *)
(* (0.78, 0.62), (1.0, 2.5) normalised is (0.37, 0.93).                     *)
(***************************************************************************)
Scale(v, k) == <<v[1] * k, v[2] * k>>

ItemThrow_base ==
  [normal |-> <<47, 37>>, fast |-> <<78, 62>>, up |-> <<0, 110>>,
   drop |-> <<0, 0>>, lob |-> <<41, 102>>, roll |-> <<40, -10>>,
   spin |-> 0, system |-> None]

ItemThrow_strength(strength) ==
  LET base == ItemThrow_base
  IN  [normal |-> Scale(base.normal, strength), fast |-> Scale(base.fast, strength),
       up |-> Scale(base.up, strength), drop |-> Scale(base.drop, strength),
       lob |-> Scale(base.lob, strength), roll |-> Scale(base.roll, strength),
       spin |-> 0, system |-> None]

with_spin(self, spin) == [self EXCEPT !.spin = spin]

\* A variant of velocity_from_control with a dead zone of half the stick.
velocity_from_control_dead_zone(self, player_control) ==
  LET move_direction == player_control.move_direction
      y == move_direction[2]
      moving == move_direction[1] > 5 \/ move_direction[1] < -5
  IN  IF y < 0 THEN (IF moving THEN self.roll ELSE self.drop)
      ELSE IF moving THEN (IF y > 0 THEN self.lob ELSE self.fast)
      ELSE IF y > 0 THEN self.up
      ELSE self.normal

\* Chooses one of the throw values from the holder's control.
velocity_from_control(self, player_control) ==
  LET move_direction == player_control.move_direction
      y == move_direction[2]
      moving == move_direction[1] # 0
  IN  IF y < 0 THEN (IF moving THEN self.roll ELSE self.drop)
      ELSE IF moving THEN (IF y > 0 THEN self.lob ELSE self.fast)
      ELSE IF y > 0 THEN self.up
      ELSE self.normal

\* ItemThrow::with_system: the one-shot system run on throw.
with_system(self, system) == [self EXCEPT !.system = Some(system)]

\* PlayerControl: the move direction, in tenths, and the edge-triggered
\* flags; default(): no input.
DefaultControl ==
  [move_direction |-> <<0, 0>>, jump_pressed |-> FALSE,
   jump_just_pressed |-> FALSE, ragdoll_just_pressed |-> FALSE]

\* The one-shot systems items of the map carry.
Systems == {"effect"}

\* f32::signum: 1.0 for a positive number and for +0.0, -1.0 for a negative one.
Signum(x) == IF x < 0 THEN -1 ELSE 1

\* (a..b).collect(): the frames a, a+1, ..., b-1.
FrameRange(a, b) == [i \in 1..(b - a) |-> a + i - 1]

(***************************************************************************)
(* KickBombCommand::spawn_kick_bomb, the queued command.                   *)
(***************************************************************************)
NewLitKickBomb ==
  [arm_delay |-> TimerNew(meta.arm_delay), fuse_time |-> TimerNew(meta.fuse_time),
   kicking |-> FALSE, kicks |-> 0]

DefaultBody == [velocity |-> <<0, 0>>, angular_velocity |-> 0, is_deactivated |-> FALSE]

spawn_lit_velocity(player_flip_f) ==
  LET horizontal_flip_factor == IF Unwrap(player_flip_f) THEN <<-1, 1>> ELSE <<1, 1>>
  IN  <<horizontal_flip_factor[1] * ThrowVelocity,
        (horizontal_flip_factor[2] * ThrowVelocity * 2) \div 5>>

spawn_kick_bomb(w, c) ==
  LET w1 == IF IsSome(c.entity) THEN w ELSE Create(w)
      entity == IF IsSome(c.entity) THEN Unwrap(c.entity) ELSE NextEntity(w)
  IN  IF c.kick_bomb_meta_handle # "kick_bomb"
      THEN w1   \* the cast failed: logged, nothing inserted
      ELSE
        LET w2 == [w1 EXCEPT
                    !.kick_bomb_handles = @ \cup {entity},
                    !.items = @ \cup {entity},
                    !.item_throws = Insert(@, entity,
                        with_spin(ItemThrow_strength(ThrowVelocity), AngularVelocity)),
                    !.item_grabs = Insert(@, entity,
                        [fin_anim |-> "kick_bomb_fin", sync_animation |-> FALSE,
                         grab_offset |-> <<1, 0>>]),
                    !.atlas_sprites = Insert(@, entity, [atlas |-> "kick_bomb", flip_x |-> FALSE]),
                    !.transforms = Insert(@, entity, c.transform),
                    !.animated_sprites = Insert(@, entity,
                        [frames |-> <<>>, fps |-> 0, repeat |-> TRUE]),
                    !.bodies = Insert(@, entity, DefaultBody)]
        IN  IF c.lit
            THEN IF IsSome(c.player_flip_f)
                 THEN [w2 EXCEPT
                        !.lit_bombs = Insert(@, entity, NewLitKickBomb),
                        !.lit_age = Insert(@, entity, 0),
                        !.bodies = Insert(@, entity,
                            [DefaultBody EXCEPT
                               !.velocity = spawn_lit_velocity(c.player_flip_f),
                               !.angular_velocity = AngularVelocity])]
                 ELSE \* player_flip_f.unwrap() panics
                      [w2 EXCEPT
                        !.lit_bombs = Insert(@, entity, NewLitKickBomb),
                        !.lit_age = Insert(@, entity, 0),
                        !.fault = TRUE]
            ELSE [w2 EXCEPT !.idle_bombs = @ \cup {entity}]

(***************************************************************************)
(* hydrate (PreUpdate).                                                    *)
(***************************************************************************)
\* A variant of hydrate_spawner that leaves the slot un-hydrated.
hydrate_spawner_unmarked(w, spawner_ent) ==
  LET transform == w.transforms[spawner_ent]
      element_handle == w.element_handles[spawner_ent]
      entity == NextEntity(w)
  IN  IF element_handle = "kick_bomb"
      THEN [Create(w) EXCEPT
             !.hydrated = @ \cup {entity},
             !.element_handles = Insert(@, entity, element_handle),
             !.respawn_points = Insert(@, entity, spawner_ent),
             !.spawner_manager = Insert(@, spawner_ent, <<entity>>),
             !.commands = Append(@,
                 [type |-> "spawn_kick_bomb", entity |-> Some(entity),
                  transform |-> transform, kick_bomb_meta_handle |-> element_handle,
                  lit |-> FALSE, player_flip_f |-> None])]
      ELSE w

hydrate_spawner(w, spawner_ent) ==
  LET transform == w.transforms[spawner_ent]
      element_handle == w.element_handles[spawner_ent]
      entity == NextEntity(w)
  IN  IF element_handle = "kick_bomb"
      THEN [Create(w) EXCEPT
             !.hydrated = @ \cup {spawner_ent, entity},
             !.element_handles = Insert(@, entity, element_handle),
             !.respawn_points = Insert(@, entity, spawner_ent),
             !.spawner_manager = Insert(@, spawner_ent, <<entity>>),
             !.commands = Append(@,
                 [type |-> "spawn_kick_bomb", entity |-> Some(entity),
                  transform |-> transform, kick_bomb_meta_handle |-> element_handle,
                  lit |-> FALSE, player_flip_f |-> None])]
      ELSE w

RECURSIVE hydrate_loop(_, _)
hydrate_loop(w, spawner_entities) ==
  IF spawner_entities = <<>> THEN w
  ELSE hydrate_loop(hydrate_spawner(w, Head(spawner_entities)), Tail(spawner_entities))

hydrate(w) ==
  LET not_hydrated == (DOMAIN w.element_handles) \ w.hydrated
      spawner_entities == SetToSeq(w.alive \cap not_hydrated)
  IN  hydrate_loop(w, spawner_entities)

(***************************************************************************)
(* update_idle_kick_bombs (PostUpdate) and the command it queues.          *)
(***************************************************************************)
\* A variant of the ignite command that does not insert the LitKickBomb.
ignite_command_no_lit(w, c) ==
  [w EXCEPT !.idle_bombs = @ \ {c.entity}]

\* A variant of the ignite command that keeps the IdleKickBomb component.
ignite_command_keep_idle(w, c) ==
  [w EXCEPT !.lit_bombs = Insert(@, c.entity,
                [arm_delay |-> TimerNew(c.arm_delay), fuse_time |-> TimerNew(c.fuse_time),
                 kicking |-> FALSE, kicks |-> 0]),
            !.lit_age = Insert(@, c.entity, 0)]

ignite_command(w, c) ==
  [w EXCEPT !.idle_bombs = @ \ {c.entity},
            !.lit_bombs = Insert(@, c.entity,
                [arm_delay |-> TimerNew(c.arm_delay), fuse_time |-> TimerNew(c.fuse_time),
                 kicking |-> FALSE, kicks |-> 0]),
            !.lit_age = Insert(@, c.entity, 0)]

\* A variant of the idle update that applies the ignition while the stage
\* runs instead of queueing it.
update_idle_bomb_inline_ignite(w, entity) ==
  IF entity \in DOMAIN w.items_used
  THEN ignite_command(
         [w EXCEPT
           !.items_used = Remove(@, entity),
           !.audio_center = Append(@, "fuse_sound"),
           !.animated_sprites[entity] =
               [@ EXCEPT !.frames = FrameRange(LitFramesStart, LitFramesEnd),
                         !.repeat = TRUE, !.fps = 1]],
         [type |-> "ignite", entity |-> entity,
          arm_delay |-> meta.arm_delay, fuse_time |-> meta.fuse_time])
  ELSE w

update_idle_bomb(w, entity) ==
  IF entity \in DOMAIN w.items_used
  THEN [w EXCEPT
         !.items_used = Remove(@, entity),
         !.audio_center = Append(@, "fuse_sound"),
         !.animated_sprites[entity] =
             [@ EXCEPT !.frames = FrameRange(LitFramesStart, LitFramesEnd),
                       !.repeat = TRUE, !.fps = 1],
         !.commands = Append(@,
             [type |-> "ignite", entity |-> entity,
              arm_delay |-> meta.arm_delay, fuse_time |-> meta.fuse_time])]
  ELSE w

RECURSIVE update_idle_loop(_, _)
update_idle_loop(w, ents) ==
  IF ents = <<>> THEN w
  ELSE update_idle_loop(update_idle_bomb(w, Head(ents)), Tail(ents))

update_idle_kick_bombs(w) ==
  update_idle_loop(w, SetToSeq(w.alive \cap w.idle_bombs \cap w.kick_bomb_handles))


(***************************************************************************)
(* PlayerInventories: per player index, the player and the item it holds.  *)
(***************************************************************************)
PlayerInventories(w) ==
  [idx \in {player_indexes[p] : p \in w.alive \cap DOMAIN w.inventories} |->
     LET player == CHOOSE p \in Players : player_indexes[p] = idx
     IN  IF IsSome(w.inventories[player])
         THEN Some([player |-> player, inventory |-> Unwrap(w.inventories[player])])
         ELSE None]

\* The Inv entries in index order (player_inventories.iter().flatten()).
InvSeq(w) ==
  LET pi == PlayerInventories(w)
      idxs == SetToSeq({i \in DOMAIN pi : IsSome(pi[i])})
  IN  [k \in 1..Len(idxs) |-> Unwrap(pi[idxs[k]])]

find_item(w, item) ==
  LET found == SelectSeq(InvSeq(w), LAMBDA inv : inv.inventory = item)
  IN  IF found = <<>> THEN None ELSE Some(Head(found))

(***************************************************************************)
(* update_lit_kick_bombs (PostUpdate).                                     *)
(***************************************************************************)
\* collision_world.actor_collisions_filtered(entity, filter)
\* (the filter is applied by the caller, with SelectSeq)
actor_collisions(w, entity) ==
  IF entity \in DOMAIN w.collision_world THEN w.collision_world[entity] ELSE <<>>

\* A variant of the deflection that kicks a resting bomb by the player's
\* side instead of the player's facing.
kick_deflect_by_side(w, entity, player_entity, kick_bomb) ==
  LET body == w.bodies[entity]
      translation == w.transforms[entity]
      player_sprite == w.atlas_sprites[player_entity]
      player_translation == w.transforms[player_entity]
      player_standing_left == player_translation.x <= translation.x
  IN  IF body.velocity[1] = 0
      THEN [explode |-> FALSE, kick_bomb |-> kick_bomb,
            velocity |-> IF ~player_standing_left
                         THEN <<-KickVelocity[1], KickVelocity[2]>>
                         ELSE KickVelocity]
      ELSE IF player_standing_left /\ ~player_sprite.flip_x
      THEN [explode |-> FALSE, kick_bomb |-> kick_bomb, velocity |-> KickVelocity]
      ELSE IF ~player_standing_left /\ player_sprite.flip_x
      THEN [explode |-> FALSE, kick_bomb |-> kick_bomb,
            velocity |-> <<-KickVelocity[1], KickVelocity[2]>>]
      ELSE IF TimerFinished(kick_bomb.arm_delay)
      THEN [explode |-> TRUE, kick_bomb |-> kick_bomb, velocity |-> body.velocity]
      ELSE [explode |-> FALSE, kick_bomb |-> kick_bomb, velocity |-> body.velocity]

\* The deflection of a kicked bomb: the new velocity, or the explosion.
kick_deflect(w, entity, player_entity, kick_bomb) ==
  LET body == w.bodies[entity]
      translation == w.transforms[entity]
      player_sprite == w.atlas_sprites[player_entity]
      player_translation == w.transforms[player_entity]
      player_standing_left == player_translation.x <= translation.x
  IN  IF body.velocity[1] = 0
      THEN [explode |-> FALSE, kick_bomb |-> kick_bomb,
            velocity |-> IF player_sprite.flip_x
                         THEN <<-KickVelocity[1], KickVelocity[2]>>
                         ELSE KickVelocity]
      ELSE IF player_standing_left /\ ~player_sprite.flip_x
      THEN [explode |-> FALSE, kick_bomb |-> kick_bomb, velocity |-> KickVelocity]
      ELSE IF ~player_standing_left /\ player_sprite.flip_x
      THEN [explode |-> FALSE, kick_bomb |-> kick_bomb,
            velocity |-> <<-KickVelocity[1], KickVelocity[2]>>]
      ELSE IF TimerFinished(kick_bomb.arm_delay)
      THEN [explode |-> TRUE, kick_bomb |-> kick_bomb, velocity |-> body.velocity]
      ELSE [explode |-> FALSE, kick_bomb |-> kick_bomb, velocity |-> body.velocity]

\* A variant of the kickable branch that explodes one kick earlier.
kick_branch_third_kick(w, entity, kick_bomb) ==
  LET hits == SelectSeq(actor_collisions(w, entity), LAMBDA e : e \notin w.invincibles)
      kickers == SelectSeq(hits, LAMBDA x : x \in DOMAIN player_indexes)
      kicked == [kick_bomb EXCEPT !.kicking = TRUE,
                                  !.kicks = IF kick_bomb.kicking THEN @ ELSE @ + 1]
  IN  IF kickers # <<>>
      THEN IF kicked.kicks > 2
           THEN [explode |-> TRUE, kick_bomb |-> kicked,
                 velocity |-> w.bodies[entity].velocity]
           ELSE kick_deflect(w, entity, Head(kickers), kicked)
      ELSE [explode |-> FALSE, kick_bomb |-> [kick_bomb EXCEPT !.kicking = FALSE],
            velocity |-> w.bodies[entity].velocity]

\* A variant of the kickable branch that counts every tick of contact.
kick_branch_every_tick(w, entity, kick_bomb) ==
  LET hits == SelectSeq(actor_collisions(w, entity), LAMBDA e : e \notin w.invincibles)
      kickers == SelectSeq(hits, LAMBDA x : x \in DOMAIN player_indexes)
      kicked == [kick_bomb EXCEPT !.kicking = TRUE, !.kicks = @ + 1]
  IN  IF kickers # <<>>
      THEN IF kicked.kicks > 3
           THEN [explode |-> TRUE, kick_bomb |-> kicked,
                 velocity |-> w.bodies[entity].velocity]
           ELSE kick_deflect(w, entity, Head(kickers), kicked)
      ELSE [explode |-> FALSE, kick_bomb |-> [kick_bomb EXCEPT !.kicking = FALSE],
            velocity |-> w.bodies[entity].velocity]

\* A variant of the kickable branch that lets invincible players kick.
kick_branch_invincible_kicks(w, entity, kick_bomb) ==
  LET kickers == SelectSeq(actor_collisions(w, entity),
                           LAMBDA x : x \in DOMAIN player_indexes)
      kicked == [kick_bomb EXCEPT !.kicking = TRUE,
                                  !.kicks = IF kick_bomb.kicking THEN @ ELSE @ + 1]
  IN  IF kickers # <<>>
      THEN IF kicked.kicks > 3
           THEN [explode |-> TRUE, kick_bomb |-> kicked,
                 velocity |-> w.bodies[entity].velocity]
           ELSE kick_deflect(w, entity, Head(kickers), kicked)
      ELSE [explode |-> FALSE, kick_bomb |-> [kick_bomb EXCEPT !.kicking = FALSE],
            velocity |-> w.bodies[entity].velocity]

\* The kickable branch.
kick_branch(w, entity, kick_bomb) ==
  LET hits == SelectSeq(actor_collisions(w, entity), LAMBDA e : e \notin w.invincibles)
      kickers == SelectSeq(hits, LAMBDA x : x \in DOMAIN player_indexes)
      kicked == [kick_bomb EXCEPT !.kicking = TRUE,
                                  !.kicks = IF kick_bomb.kicking THEN @ ELSE @ + 1]
  IN  IF kickers # <<>>
      THEN IF kicked.kicks > 3
           THEN [explode |-> TRUE, kick_bomb |-> kicked,
                 velocity |-> w.bodies[entity].velocity]
           ELSE kick_deflect(w, entity, Head(kickers), kicked)
      ELSE [explode |-> FALSE, kick_bomb |-> [kick_bomb EXCEPT !.kicking = FALSE],
            velocity |-> w.bodies[entity].velocity]

\* A variant of 'should_explode that looks at the inventories before the fuse.
should_explode_held_first(w, entity, kick_bomb) ==
  LET players == w.alive \cap DOMAIN player_indexes
      colliding_with_players ==
        SelectSeq(actor_collisions(w, entity),
                 LAMBDA e : e \in players /\ e \notin w.invincibles)
      same == [explode |-> FALSE, kick_bomb |-> kick_bomb,
               velocity |-> w.bodies[entity].velocity]
  IN  IF IsSome(find_item(w, entity))
      THEN [same EXCEPT !.kick_bomb.kicking = FALSE]
      ELSE IF TimerFinished(kick_bomb.fuse_time)
      THEN [same EXCEPT !.explode = TRUE]
      ELSE IF /\ meta.explode_on_contact
              /\ colliding_with_players # <<>>
              /\ TimerFinished(kick_bomb.arm_delay)
      THEN [same EXCEPT !.explode = TRUE]
      ELSE IF meta.kickable
      THEN kick_branch(w, entity, kick_bomb)
      ELSE same

\* A variant of 'should_explode without the inventory check.
should_explode_no_held(w, entity, kick_bomb) ==
  LET players == w.alive \cap DOMAIN player_indexes
      colliding_with_players ==
        SelectSeq(actor_collisions(w, entity),
                 LAMBDA e : e \in players /\ e \notin w.invincibles)
      same == [explode |-> FALSE, kick_bomb |-> kick_bomb,
               velocity |-> w.bodies[entity].velocity]
  IN  IF TimerFinished(kick_bomb.fuse_time)
      THEN [same EXCEPT !.explode = TRUE]
      ELSE IF /\ meta.explode_on_contact
              /\ colliding_with_players # <<>>
              /\ TimerFinished(kick_bomb.arm_delay)
      THEN [same EXCEPT !.explode = TRUE]
      ELSE IF meta.kickable
      THEN kick_branch(w, entity, kick_bomb)
      ELSE same

\* The block 'should_explode of one bomb whose timers have been ticked:
\* whether it explodes, its LitKickBomb and its velocity after the block.
should_explode(w, entity, kick_bomb) ==
  LET players == w.alive \cap DOMAIN player_indexes
      colliding_with_players ==
        SelectSeq(actor_collisions(w, entity),
                 LAMBDA e : e \in players /\ e \notin w.invincibles)
      same == [explode |-> FALSE, kick_bomb |-> kick_bomb,
               velocity |-> w.bodies[entity].velocity]
  IN  IF TimerFinished(kick_bomb.fuse_time)
      THEN [same EXCEPT !.explode = TRUE]
      ELSE IF /\ meta.explode_on_contact
              /\ colliding_with_players # <<>>
              /\ TimerFinished(kick_bomb.arm_delay)
      THEN [same EXCEPT !.explode = TRUE]
      ELSE IF IsSome(find_item(w, entity))
      THEN [same EXCEPT !.kick_bomb.kicking = FALSE]
      ELSE IF meta.kickable
      THEN kick_branch(w, entity, kick_bomb)
      ELSE same

\* A variant of the explosion that keeps the bomb's depth and rotation.
explode_effects_keep_depth(w, entity) ==
  [w EXCEPT
    !.audio_center = Append(@, "explosion_sound"),
    !.trauma_events = Append(@, "7.5"),
    !.hydrated = IF entity \in DOMAIN w.respawn_points
                 THEN @ \ {w.respawn_points[entity]}
                 ELSE @,
    !.commands = Append(@,
        [type |-> "explode", entity |-> entity,
         explosion_transform |-> w.transforms[entity]])]

\* A variant of the explosion that leaves the spawner slot hydrated.
explode_effects_keep_hydrated(w, entity) ==
  LET explosion_transform == [w.transforms[entity] EXCEPT !.z = -10, !.rotation = 0]
  IN  [w EXCEPT
        !.audio_center = Append(@, "explosion_sound"),
        !.trauma_events = Append(@, "7.5"),
        !.commands = Append(@,
            [type |-> "explode", entity |-> entity,
             explosion_transform |-> explosion_transform])]

\* A variant of the explosion that kills the bomb while the stage runs.
explode_effects_kill_inline(w, entity) ==
  LET explosion_transform == [w.transforms[entity] EXCEPT !.z = -10, !.rotation = 0]
  IN  Kill([w EXCEPT
             !.audio_center = Append(@, "explosion_sound"),
             !.trauma_events = Append(@, "7.5"),
             !.hydrated = IF entity \in DOMAIN w.respawn_points
                          THEN @ \ {w.respawn_points[entity]}
                          ELSE @,
             !.commands = Append(@,
                 [type |-> "explode", entity |-> entity,
                  explosion_transform |-> explosion_transform])],
           entity)

\* If it's time to explode: the sound, the camera trauma, the spawner slot
\* un-hydrated, and the queued explosion.
explode_effects(w, entity) ==
  LET explosion_transform == [w.transforms[entity] EXCEPT !.z = -10, !.rotation = 0]
  IN  [w EXCEPT
        !.audio_center = Append(@, "explosion_sound"),
        !.trauma_events = Append(@, "7.5"),
        !.hydrated = IF entity \in DOMAIN w.respawn_points
                     THEN @ \ {w.respawn_points[entity]}
                     ELSE @,
        !.commands = Append(@,
            [type |-> "explode", entity |-> entity,
             explosion_transform |-> explosion_transform])]

\* A variant of the lit update in which a bomb in a player's hands waits
\* with its explosion.
update_lit_bomb_held_waits(w, entity) ==
  LET ticked == [w.lit_bombs[entity] EXCEPT
                   !.fuse_time = TimerTick(@, delta),
                   !.arm_delay = TimerTick(@, delta)]
      out == should_explode(w, entity, ticked)
      w1 == [w EXCEPT
              !.lit_bombs[entity] = out.kick_bomb,
              !.bodies[entity].velocity = out.velocity,
              !.lit_age[entity] = Min(@ + delta, meta.fuse_time + MaxDelta)]
  IN  IF out.explode /\ ~IsSome(find_item(w, entity))
      THEN explode_effects(w1, entity) ELSE w1

update_lit_bomb(w, entity) ==
  LET ticked == [w.lit_bombs[entity] EXCEPT
                   !.fuse_time = TimerTick(@, delta),
                   !.arm_delay = TimerTick(@, delta)]
      out == should_explode(w, entity, ticked)
      w1 == [w EXCEPT
              !.lit_bombs[entity] = out.kick_bomb,
              !.bodies[entity].velocity = out.velocity,
              !.lit_age[entity] = Min(@ + delta, meta.fuse_time + MaxDelta)]
  IN  IF out.explode THEN explode_effects(w1, entity) ELSE w1

RECURSIVE update_lit_loop(_, _)
update_lit_loop(w, ents) ==
  IF ents = <<>> THEN w
  ELSE update_lit_loop(update_lit_bomb(w, Head(ents)), Tail(ents))

update_lit_kick_bombs(w) ==
  update_lit_loop(w, SetToSeq(w.alive \cap DOMAIN w.lit_bombs \cap w.kick_bomb_handles))

\* A variant of the queued explosion that leaves the bomb in the store.
explode_command_keep_bomb(w, c) ==
  LET region == NextEntity(w)
      w2 == [Create(w) EXCEPT
              !.transforms = Insert(@, region, c.explosion_transform),
              !.damage_regions = Insert(@, region, [size |-> DamageRegionSize]),
              !.lifetimes = Insert(@, region,
                  [lifetime |-> DamageRegionLifetime, age |-> 0])]
      visual == NextEntity(w2)
  IN  [Create(w2) EXCEPT
        !.transforms = Insert(@, visual, c.explosion_transform),
        !.atlas_sprites = Insert(@, visual, [atlas |-> "explosion", flip_x |-> FALSE]),
        !.animated_sprites = Insert(@, visual,
            [frames |-> FrameRange(0, ExplosionFrames), fps |-> 1, repeat |-> FALSE]),
        !.lifetimes = Insert(@, visual, [lifetime |-> ExplosionLifetime, age |-> 0])]

\* The command queued by an exploding bomb.
explode_command(w, c) ==
  LET w1 == Kill(w, c.entity)
      region == NextEntity(w1)
      w2 == [Create(w1) EXCEPT
              !.transforms = Insert(@, region, c.explosion_transform),
              !.damage_regions = Insert(@, region, [size |-> DamageRegionSize]),
              !.lifetimes = Insert(@, region,
                  [lifetime |-> DamageRegionLifetime, age |-> 0])]
      visual == NextEntity(w2)
  IN  [Create(w2) EXCEPT
        !.transforms = Insert(@, visual, c.explosion_transform),
        !.atlas_sprites = Insert(@, visual, [atlas |-> "explosion", flip_x |-> FALSE]),
        !.animated_sprites = Insert(@, visual,
            [frames |-> FrameRange(0, ExplosionFrames), fps |-> 1, repeat |-> FALSE]),
        !.lifetimes = Insert(@, visual, [lifetime |-> ExplosionLifetime, age |-> 0])]


(***************************************************************************)
(* The item systems (Last): grab_items, drop_items, throw_dropped_items.   *)
(***************************************************************************)
\* A variant of the grab that leaves the body active.
grab_item_keep_active(w, entity) ==
  IF entity \in DOMAIN w.items_grabbed
  THEN LET player == w.items_grabbed[entity]
           item_grab == w.item_grabs[entity]
       IN  [w EXCEPT
             !.items_grabbed = Remove(@, entity),
             !.player_layers[player] = item_grab.fin_anim,
             !.attachments = Insert(@, entity,
                 [player |-> player, sync_animation |-> item_grab.sync_animation,
                  sync_color |-> FALSE, head |-> FALSE,
                  offset |-> item_grab.grab_offset])]
  ELSE w

grab_item(w, entity) ==
  IF entity \in DOMAIN w.items_grabbed
  THEN LET player == w.items_grabbed[entity]
           item_grab == w.item_grabs[entity]
       IN  [w EXCEPT
             !.items_grabbed = Remove(@, entity),
             !.player_layers[player] = item_grab.fin_anim,
             !.bodies = IF entity \in DOMAIN w.bodies
                        THEN [@ EXCEPT ![entity].is_deactivated = TRUE]
                        ELSE @,
             !.attachments = Insert(@, entity,
                 [player |-> player, sync_animation |-> item_grab.sync_animation,
                  sync_color |-> FALSE, head |-> FALSE,
                  offset |-> item_grab.grab_offset])]
  ELSE w

RECURSIVE grab_loop(_, _)
grab_loop(w, ents) ==
  IF ents = <<>> THEN w ELSE grab_loop(grab_item(w, Head(ents)), Tail(ents))

grab_items(w) ==
  grab_loop(w, SetToSeq(w.alive \cap w.items \cap DOMAIN w.item_grabs))

drop_item(w, inv) ==
  IF inv.inventory \in w.drop_items_req
  THEN [w EXCEPT
         !.drop_items_req = @ \ {inv.inventory},
         !.commands = Append(@,
             [type |-> "set_inventory", player |-> inv.player, item |-> None])]
  ELSE w

RECURSIVE drop_loop(_, _)
drop_loop(w, invs) ==
  IF invs = <<>> THEN w ELSE drop_loop(drop_item(w, Head(invs)), Tail(invs))

\* A variant of drop_items that consumes every drop request, held or not.
drop_items_any_request(w) ==
  [drop_loop(w, InvSeq(w)) EXCEPT !.drop_items_req = {}]

drop_items(w) == drop_loop(w, InvSeq(w))

\* A variant of the throw that leaves the body deactivated.
throw_item_keep_deactivated(w, entity) ==
  IF entity \in DOMAIN w.items_dropped
  THEN LET player == w.items_dropped[entity]
           item_throw == w.item_throws[entity]
           player_sprite == w.atlas_sprites[player]
           horizontal_flip_factor == IF player_sprite.flip_x THEN <<-1, 1>> ELSE <<1, 1>>
           throw_velocity == velocity_from_control(item_throw, w.player_inputs[player])
           z == IF entity \in DOMAIN w.respawn_points
                THEN z_depth_for_map_layer(map_layers[w.respawn_points[entity]])
                ELSE z_depth_for_map_layer(CHOOSE layer \in player_spawner_layers : TRUE)
       IN  [w EXCEPT
             !.commands = IF IsSome(item_throw.system)
                          THEN Append(@, [type |-> "throw_system",
                                          system |-> Unwrap(item_throw.system)])
                          ELSE @,
             !.items_dropped = Remove(@, entity),
             !.attachments = Remove(@, entity),
             !.transforms[entity].z = z,
             !.bodies = IF entity \in DOMAIN w.bodies
                        THEN [@ EXCEPT
                               ![entity].velocity =
                                   <<throw_velocity[1] * horizontal_flip_factor[1],
                                     throw_velocity[2] * horizontal_flip_factor[2]>>,
                               ![entity].angular_velocity =
                                   item_throw.spin * horizontal_flip_factor[1]
                                     * Signum(throw_velocity[2])]
                        ELSE @]
  ELSE w

\* A variant of the throw that mirrors both components for a flipped player.
throw_item_flip_both(w, entity) ==
  IF entity \in DOMAIN w.items_dropped
  THEN LET player == w.items_dropped[entity]
           item_throw == w.item_throws[entity]
           player_sprite == w.atlas_sprites[player]
           horizontal_flip_factor == IF player_sprite.flip_x THEN <<-1, -1>> ELSE <<1, 1>>
           throw_velocity == velocity_from_control(item_throw, w.player_inputs[player])
           z == IF entity \in DOMAIN w.respawn_points
                THEN z_depth_for_map_layer(map_layers[w.respawn_points[entity]])
                ELSE z_depth_for_map_layer(CHOOSE layer \in player_spawner_layers : TRUE)
       IN  [w EXCEPT
             !.commands = IF IsSome(item_throw.system)
                          THEN Append(@, [type |-> "throw_system",
                                          system |-> Unwrap(item_throw.system)])
                          ELSE @,
             !.items_dropped = Remove(@, entity),
             !.attachments = Remove(@, entity),
             !.transforms[entity].z = z,
             !.bodies = IF entity \in DOMAIN w.bodies
                        THEN [@ EXCEPT
                               ![entity].velocity =
                                   <<throw_velocity[1] * horizontal_flip_factor[1],
                                     throw_velocity[2] * horizontal_flip_factor[2]>>,
                               ![entity].angular_velocity =
                                   item_throw.spin * horizontal_flip_factor[1]
                                     * Signum(throw_velocity[2]),
                               ![entity].is_deactivated = FALSE]
                        ELSE @]
  ELSE w

\* A variant of the throw that runs the item's system inline.
throw_item_inline_system(w, entity) ==
  IF entity \in DOMAIN w.items_dropped
  THEN LET player == w.items_dropped[entity]
           item_throw == w.item_throws[entity]
           player_sprite == w.atlas_sprites[player]
           horizontal_flip_factor == IF player_sprite.flip_x THEN <<-1, 1>> ELSE <<1, 1>>
           throw_velocity == velocity_from_control(item_throw, w.player_inputs[player])
           z == IF entity \in DOMAIN w.respawn_points
                THEN z_depth_for_map_layer(map_layers[w.respawn_points[entity]])
                ELSE z_depth_for_map_layer(CHOOSE layer \in player_spawner_layers : TRUE)
       IN  [w EXCEPT
             !.system_runs = IF IsSome(item_throw.system)
                             THEN [@ EXCEPT ![Unwrap(item_throw.system)] = @ + 1]
                             ELSE @,
             !.items_dropped = Remove(@, entity),
             !.attachments = Remove(@, entity),
             !.transforms[entity].z = z,
             !.bodies = IF entity \in DOMAIN w.bodies
                        THEN [@ EXCEPT
                               ![entity].velocity =
                                   <<throw_velocity[1] * horizontal_flip_factor[1],
                                     throw_velocity[2] * horizontal_flip_factor[2]>>,
                               ![entity].angular_velocity =
                                   item_throw.spin * horizontal_flip_factor[1]
                                     * Signum(throw_velocity[2]),
                               ![entity].is_deactivated = FALSE]
                        ELSE @]
  ELSE w

throw_item(w, entity) ==
  IF entity \in DOMAIN w.items_dropped
  THEN LET player == w.items_dropped[entity]
           item_throw == w.item_throws[entity]
           player_sprite == w.atlas_sprites[player]
           horizontal_flip_factor == IF player_sprite.flip_x THEN <<-1, 1>> ELSE <<1, 1>>
           throw_velocity == velocity_from_control(item_throw, w.player_inputs[player])
           z == IF entity \in DOMAIN w.respawn_points
                THEN z_depth_for_map_layer(map_layers[w.respawn_points[entity]])
                ELSE z_depth_for_map_layer(CHOOSE layer \in player_spawner_layers : TRUE)
           \* the marker and the attachment are removed before the lookups
           w1 == [w EXCEPT
                   !.commands = IF IsSome(item_throw.system)
                                THEN Append(@, [type |-> "throw_system",
                                                system |-> Unwrap(item_throw.system)])
                                ELSE @,
                   !.items_dropped = Remove(@, entity),
                   !.attachments = Remove(@, entity)]
       IN  IF \/ player \notin DOMAIN w.atlas_sprites     \* sprites.get_mut(player).unwrap()
              \/ player \notin DOMAIN player_indexes      \* player_indexes.get(player).unwrap()
              \/ /\ entity \in DOMAIN w.respawn_points    \* map_layers.get(..).unwrap()
                 /\ w.respawn_points[entity] \notin DOMAIN map_layers
              \/ /\ entity \notin DOMAIN w.respawn_points \* .next().unwrap()
                 /\ player_spawner_layers = {}
           THEN [w1 EXCEPT !.fault = TRUE]
           ELSE [w1 EXCEPT
                  !.transforms[entity].z = z,
                  !.bodies = IF entity \in DOMAIN w.bodies
                             THEN [@ EXCEPT
                                    ![entity].velocity =
                                        <<throw_velocity[1] * horizontal_flip_factor[1],
                                          throw_velocity[2] * horizontal_flip_factor[2]>>,
                                    ![entity].angular_velocity =
                                        item_throw.spin * horizontal_flip_factor[1]
                                          * Signum(throw_velocity[2]),
                                    ![entity].is_deactivated = FALSE]
                             ELSE @]
  ELSE w

RECURSIVE throw_loop(_, _)
throw_loop(w, ents) ==
  IF ents = <<>> \/ w.fault THEN w
  ELSE throw_loop(throw_item(w, Head(ents)), Tail(ents))

throw_dropped_items(w) ==
  throw_loop(w, SetToSeq(w.alive \cap w.items \cap DOMAIN w.item_throws
                           \cap DOMAIN w.transforms))

(***************************************************************************)
(* The commands of the player module: PlayerCommand::set_inventory puts a  *)
(* dropped-by marker on the item the player held and a grabbed-by marker   *)
(* on the item it takes; using the held item puts a used marker on it;     *)
(* asking to drop it puts a drop-requested marker on it.                   *)
(***************************************************************************)
set_inventory(w, c) ==
  LET previous == w.inventories[c.player]
      w1 == IF IsSome(previous)
            THEN [w EXCEPT !.items_dropped = Insert(@, Unwrap(previous), c.player)]
            ELSE w
      w2 == IF IsSome(c.item)
            THEN [w1 EXCEPT !.items_grabbed = Insert(@, Unwrap(c.item), c.player)]
            ELSE w1
  IN  [w2 EXCEPT !.inventories[c.player] = c.item]

use_item(w, c) ==
  IF IsSome(w.inventories[c.player])
  THEN [w EXCEPT !.items_used = Insert(@, Unwrap(w.inventories[c.player]), c.player)]
  ELSE w

request_drop(w, c) ==
  IF IsSome(w.inventories[c.player])
  THEN [w EXCEPT !.drop_items_req = @ \cup {Unwrap(w.inventories[c.player])}]
  ELSE w

\* The command queued by a throw: the item's system is run.
throw_system_command(w, c) == [w EXCEPT !.system_runs[c.system] = @ + 1]

\* The queued kill of an entity whose Lifetime has run out.
kill_command(w, c) == Kill(w, c.entity)

(***************************************************************************)
(* The command queue: the commands of a stage, applied in queue order with *)
(* exclusive access to the store.                                          *)
(***************************************************************************)
run_command(w, c) ==
  CASE c.type = "spawn_kick_bomb" -> spawn_kick_bomb(w, c)
    [] c.type = "ignite" -> ignite_command(w, c)
    [] c.type = "explode" -> explode_command(w, c)
    [] c.type = "set_inventory" -> set_inventory(w, c)
    [] c.type = "use_item" -> use_item(w, c)
    [] c.type = "request_drop" -> request_drop(w, c)
    [] c.type = "kill" -> kill_command(w, c)
    [] c.type = "throw_system" -> throw_system_command(w, c)
    [] OTHER -> w

RECURSIVE run_commands(_, _)
run_commands(w, queue) ==
  IF queue = <<>> \/ w.fault THEN w
  ELSE run_commands(run_command(w, Head(queue)), Tail(queue))

apply_commands(w) == run_commands([w EXCEPT !.commands = <<>>], w.commands)

\* World::maintain at the end of the tick: the components of entities that
\* are no longer live are dropped and their indices become reusable; an
\* inventory that still names such an entity names the tombstone.
maintain(w) ==
  [w EXCEPT
    !.killed = {},
    !.inventories = [p \in DOMAIN @ |->
                       IF IsSome(@[p]) /\ Unwrap(@[p]) \notin w.alive
                       THEN Some(CHOOSE t \in Tombstones : TRUE)
                       ELSE @[p]],
    !.hydrated = @ \cap w.alive,
    !.element_handles = Restrict(@, w.alive),
    !.respawn_points = Restrict(@, w.alive),
    !.kick_bomb_handles = @ \cap w.alive,
    !.items = @ \cap w.alive,
    !.item_throws = Restrict(@, w.alive),
    !.item_grabs = Restrict(@, w.alive),
    !.atlas_sprites = Restrict(@, w.alive),
    !.animated_sprites = Restrict(@, w.alive),
    !.transforms = Restrict(@, w.alive),
    !.bodies = Restrict(@, w.alive),
    !.idle_bombs = @ \cap w.alive,
    !.lit_bombs = Restrict(@, w.alive),
    !.lit_age = Restrict(@, w.alive),
    !.items_used = Restrict(@, w.alive),
    !.items_grabbed = Restrict(@, w.alive),
    !.items_dropped = Restrict(@, w.alive),
    !.drop_items_req = @ \cap w.alive,
    !.attachments = Restrict(@, w.alive),
    !.damage_regions = Restrict(@, w.alive),
    !.lifetimes = Restrict(@, w.alive),
    !.collision_world = Restrict(@, w.alive)]


(***************************************************************************)
(* The Update stage: the systems of the other modules, by what they do to  *)
(* the tables above.  The Lifetime system queues the kill of an entity     *)
(* whose lifetime has run out; the player's state systems queue its grab,  *)
(* use and drop requests; player movement and physics give the player's    *)
(* facing, position and invincibility and the overlaps of the lit bombs.   *)
(***************************************************************************)
lifetime_entity(w, e) ==
  LET aged == [w.lifetimes[e] EXCEPT !.age = @ + delta]
  IN  IF aged.age >= aged.lifetime
      THEN [w EXCEPT !.lifetimes[e] = aged,
                     !.commands = Append(@, [type |-> "kill", entity |-> e])]
      ELSE [w EXCEPT !.lifetimes[e] = aged]

RECURSIVE lifetime_loop(_, _)
lifetime_loop(w, ents) ==
  IF ents = <<>> THEN w ELSE lifetime_loop(lifetime_entity(w, Head(ents)), Tail(ents))

lifetime_system(w) == lifetime_loop(w, SetToSeq(w.alive \cap DOMAIN w.lifetimes))

\* The items a player with an empty inventory can grab, the Free ones: live,
\* held by nobody, with no dropped marker waiting for its throw.
Grabbable(w) ==
  {e \in w.alive \cap w.items :
     ~IsSome(find_item(w, e)) /\ e \notin DOMAIN w.items_dropped}

Requests == {"none", "grab", "use", "drop"}
\* The move directions a dropping player holds in this specification.
ThrowControls == {<<0, 0>>, <<0, -10>>, <<10, 10>>}

LitAlive(w) == w.alive \cap DOMAIN w.lit_bombs
\* The player's dropped item is thrown at the end of this tick.
ThrowPending(w, p) == \E e \in w.alive \cap DOMAIN w.items_dropped : w.items_dropped[e] = p

player_request(w, p, req, item) ==
  CASE req = "grab" ->
         [w EXCEPT !.commands = Append(@,
             [type |-> "set_inventory", player |-> p, item |-> Some(item)])]
    [] req = "use" ->
         [w EXCEPT !.commands = Append(@, [type |-> "use_item", player |-> p])]
    [] req = "drop" ->
         [w EXCEPT !.commands = Append(@, [type |-> "request_drop", player |-> p])]
    [] OTHER -> w

physics(w, p, contact, flip, px, inv, md) ==
  [w EXCEPT
    !.collision_world = [b \in LitAlive(w) |-> IF contact THEN <<p>> ELSE <<>>],
    !.atlas_sprites[p].flip_x = flip,
    !.transforms[p].x = px,
    !.invincibles = IF inv THEN {p} ELSE {},
    !.player_inputs[p].move_direction = md,
    !.audio_center = <<>>,
    !.trauma_events = <<>>]

(***************************************************************************)
(* The state machine: the schedule of one tick.                            *)
(***************************************************************************)
\* The players that have joined the match.
MatchPlayers == {3}

Init ==
  /\ pc = "hydrate"
  /\ meta \in [kickable : BOOLEAN, explode_on_contact : BOOLEAN,
               fuse_time : {FuseTime}, arm_delay : {ArmDelay}]
  /\ delta \in 1..MaxDelta
  /\ alive = Spawners \cup MatchPlayers
  /\ killed = {}
  /\ commands = <<>>
  /\ hydrated = {}
  /\ element_handles = [s \in Spawners |-> ElementData(s)]
  /\ respawn_points = Empty
  /\ spawner_manager = Empty
  /\ kick_bomb_handles = {}
  /\ items = {}
  /\ item_throws = Empty
  /\ item_grabs = Empty
  /\ atlas_sprites = [p \in MatchPlayers |-> [atlas |-> "player", flip_x |-> FALSE]]
  /\ animated_sprites = Empty
  /\ transforms = [e \in Spawners \cup MatchPlayers |->
                     IF e \in Spawners THEN SpawnerTransform ELSE PlayerTransform]
  /\ bodies = Empty
  /\ idle_bombs = {}
  /\ lit_bombs = Empty
  /\ items_used = Empty
  /\ items_grabbed = Empty
  /\ items_dropped = Empty
  /\ drop_items_req = {}
  /\ attachments = Empty
  /\ inventories = [p \in MatchPlayers |-> None]
  /\ player_layers = [p \in MatchPlayers |-> "none"]
  /\ damage_regions = Empty
  /\ lifetimes = Empty
  /\ invincibles = {}
  /\ collision_world = Empty
  /\ player_inputs = [p \in MatchPlayers |-> DefaultControl]
  /\ player_states = [p \in MatchPlayers |-> [current |-> "idle", age |-> 0]]
  /\ animations = [p \in MatchPlayers |-> "idle"]
  /\ system_runs = [s \in Systems |-> 0]
  /\ emote_regions = Empty
  /\ debug_settings = [show_kinematic_colliders |-> FALSE, show_damage_regions |-> FALSE]
  /\ debug_context = None
  /\ rigid_body_set = Empty
  /\ paths = Empty
  /\ shared_resources = {"AudioCenter"}
  /\ sessions = [n \in {"audio"} |-> <<"music_system">>]
  /\ fault = FALSE
  /\ audio_center = <<>>
  /\ trauma_events = <<>>
  /\ lit_age = Empty

\* PreUpdate: hydrate.
Hydrate ==
  /\ pc = "hydrate"
  /\ ~fault
  /\ Commit(hydrate(World))
  /\ pc' = "apply_pre_update"
  /\ UNCHANGED <<meta, delta, sessions, shared_resources, debug_settings, emote_regions>>

\* Update: the player, lifetime and physics systems of the other modules.
UpdateStage ==
  /\ pc = "update"
  /\ ~fault
  /\ \E p \in alive \cap Players, req \in Requests, contact \in BOOLEAN, flip \in BOOLEAN,
        px \in {1, 2}, inv \in BOOLEAN, md \in ThrowControls :
       /\ contact => LitAlive(World) # {}
       /\ ~contact => (px = 1 /\ ~inv)
       /\ (~contact /\ ~ThrowPending(World, p)) => ~flip
       /\ ~ThrowPending(World, p) => md = <<0, 0>>
       /\ req = "grab" => (~IsSome(inventories[p]) /\ Grabbable(World) # {})
       /\ req \in {"use", "drop"} => IsSome(inventories[p])
       /\ \E item \in IF req = "grab" THEN Grabbable(World) ELSE {0} :
            Commit(player_request(
                     lifetime_system(physics(World, p, contact, flip, px, inv, md)),
                     p, req, item))
  /\ pc' = "apply_update"
  /\ UNCHANGED <<meta, delta, sessions, shared_resources, debug_settings, emote_regions>>

\* PostUpdate: update_lit_kick_bombs, then update_idle_kick_bombs.
UpdateLit ==
  /\ pc = "update_lit_kick_bombs"
  /\ ~fault
  /\ Commit(update_lit_kick_bombs(World))
  /\ pc' = "update_idle_kick_bombs"
  /\ UNCHANGED <<meta, delta, sessions, shared_resources, debug_settings, emote_regions>>

UpdateIdle ==
  /\ pc = "update_idle_kick_bombs"
  /\ ~fault
  /\ Commit(update_idle_kick_bombs(World))
  /\ pc' = "apply_post_update"
  /\ UNCHANGED <<meta, delta, sessions, shared_resources, debug_settings, emote_regions>>

\* Last: grab_items, drop_items, throw_dropped_items.
GrabItems ==
  /\ pc = "grab_items"
  /\ ~fault
  /\ Commit(grab_items(World))
  /\ pc' = "drop_items"
  /\ UNCHANGED <<meta, delta, sessions, shared_resources, debug_settings, emote_regions>>

DropItems ==
  /\ pc = "drop_items"
  /\ ~fault
  /\ Commit(drop_items(World))
  /\ pc' = "throw_dropped_items"
  /\ UNCHANGED <<meta, delta, sessions, shared_resources, debug_settings, emote_regions>>

ThrowDroppedItems ==
  /\ pc = "throw_dropped_items"
  /\ ~fault
  /\ Commit(throw_dropped_items(World))
  /\ pc' = "apply_last"
  /\ UNCHANGED <<meta, delta, sessions, shared_resources, debug_settings, emote_regions>>

\* The stage after a stage's command queue has been applied.
AfterApply(p) ==
  CASE p = "apply_pre_update" -> "update"
    [] p = "apply_update" -> "update_lit_kick_bombs"
    [] p = "apply_post_update" -> "grab_items"
    [] p = "apply_last" -> "hydrate"

ApplyPoints == {"apply_pre_update", "apply_update", "apply_post_update", "apply_last"}

\* Between stages: the queue of the stage that ran is applied; after the
\* last stage the tick ends.
ApplyCommands ==
  /\ pc \in ApplyPoints
  /\ ~fault
  /\ Commit(IF pc = "apply_last"
            THEN maintain(apply_commands(World))
            ELSE apply_commands(World))
  /\ pc' = AfterApply(pc)
  /\ UNCHANGED <<meta, delta, sessions, shared_resources, debug_settings, emote_regions>>

Next ==
  \/ Hydrate
  \/ UpdateStage
  \/ UpdateLit
  \/ UpdateIdle
  \/ GrabItems
  \/ DropItems
  \/ ThrowDroppedItems
  \/ ApplyCommands

Spec == Init /\ [][Next]_vars


(***************************************************************************)
(* SpecLit: the PostUpdate stage of one tick, from every state a single    *)
(* lit bomb of a long-fused asset can be in when the stage starts.  The    *)
(* bomb has been lit for t ticks; it has counted at most one kick per two  *)
(* ticks; it is held by the player or free, moving or at rest, spawned by  *)
(* a slot or by a command; the player overlaps it or not.                  *)
(***************************************************************************)
LitBomb == CHOOSE e \in Pool : \A o \in Pool : e <= o
ThrownTransform == [x |-> 2, y |-> 0, z |-> 101, rotation |-> 0]
LitVelocities == {<<0, 0>>, <<94, 74>>, KickVelocity, <<-KickVelocity[1], KickVelocity[2]>>}

InitLit ==
  /\ pc = "update_lit_kick_bombs"
  /\ meta \in [kickable : BOOLEAN, explode_on_contact : BOOLEAN,
               fuse_time : {LitFuseTime}, arm_delay : {LitArmDelay}]
  /\ delta \in 1..MaxDelta
  /\ \E t \in 0..(LitFuseTime - 1), kicks \in 0..3, kicking \in BOOLEAN,
        velocity \in LitVelocities, held \in BOOLEAN, has_spawner \in BOOLEAN,
        transform \in {SpawnerTransform, ThrownTransform},
        contact \in BOOLEAN, flip \in BOOLEAN, px \in {1, 2}, inv \in BOOLEAN :
       \* the bomb has not exploded yet
       /\ t * delta < meta.fuse_time
       \* a kick needs a tick with contact after a tick without
       /\ t >= 2 * kicks - (IF kicking THEN 1 ELSE 0)
       /\ kicking => kicks >= 1
       /\ kicks >= 1 => meta.kickable
       /\ (kicking /\ meta.explode_on_contact) => t * delta < meta.arm_delay
       /\ velocity[1] \in {KickVelocity[1], -KickVelocity[1]} => kicks >= 1
       /\ ~contact => (~flip /\ px = 1 /\ ~inv)
       /\ alive = (IF has_spawner THEN {1} ELSE {}) \cup {2, 3, LitBomb}
       /\ hydrated = IF has_spawner THEN {1, LitBomb} ELSE {}
       /\ element_handles =
            [e \in (IF has_spawner THEN {1, LitBomb} ELSE {}) \cup {2} |-> ElementData(IF e = 2 THEN 2 ELSE 1)]
       /\ respawn_points = IF has_spawner THEN [e \in {LitBomb} |-> 1] ELSE Empty
       /\ spawner_manager = IF has_spawner THEN [e \in {1} |-> <<LitBomb>>] ELSE Empty
       /\ transforms =
            [e \in alive |->
               IF e = LitBomb THEN transform
               ELSE IF e = 3 THEN [PlayerTransform EXCEPT !.x = px]
               ELSE SpawnerTransform]
       /\ bodies = [e \in {LitBomb} |->
                      [DefaultBody EXCEPT !.velocity = velocity, !.is_deactivated = held]]
       /\ lit_bombs = [e \in {LitBomb} |->
                         [arm_delay |-> [duration |-> meta.arm_delay,
                                         elapsed |-> Min(t * delta, meta.arm_delay)],
                          fuse_time |-> [duration |-> meta.fuse_time, elapsed |-> t * delta],
                          kicking |-> kicking, kicks |-> kicks]]
       /\ lit_age = [e \in {LitBomb} |-> t * delta]
       /\ attachments =
            IF held
            THEN [e \in {LitBomb} |->
                    [player |-> 3, sync_animation |-> FALSE, sync_color |-> FALSE,
                     head |-> FALSE, offset |-> <<1, 0>>]]
            ELSE Empty
       /\ inventories = [p \in {3} |-> IF held THEN Some(LitBomb) ELSE None]
       /\ atlas_sprites =
            [e \in {3, LitBomb} |->
               IF e = 3 THEN [atlas |-> "player", flip_x |-> flip]
               ELSE [atlas |-> "kick_bomb", flip_x |-> FALSE]]
       /\ invincibles = IF inv THEN {3} ELSE {}
       /\ collision_world = [e \in {LitBomb} |-> IF contact THEN <<3>> ELSE <<>>]
  /\ killed = {}
  /\ commands = <<>>
  /\ kick_bomb_handles = {LitBomb}
  /\ items = {LitBomb}
  /\ item_throws = [e \in {LitBomb} |->
                      with_spin(ItemThrow_strength(ThrowVelocity), AngularVelocity)]
  /\ item_grabs = [e \in {LitBomb} |->
                     [fin_anim |-> "kick_bomb_fin", sync_animation |-> FALSE,
                      grab_offset |-> <<1, 0>>]]
  /\ animated_sprites = [e \in {LitBomb} |->
                           [frames |-> FrameRange(LitFramesStart, LitFramesEnd),
                            fps |-> 1, repeat |-> TRUE]]
  /\ idle_bombs = {}
  /\ items_used = Empty
  /\ items_grabbed = Empty
  /\ items_dropped = Empty
  /\ drop_items_req = {}
  /\ player_layers = [p \in {3} |-> "kick_bomb_fin"]
  /\ damage_regions = Empty
  /\ lifetimes = Empty
  /\ player_inputs = [p \in {3} |-> DefaultControl]
  /\ player_states = [p \in {3} |-> [current |-> "idle", age |-> 0]]
  /\ animations = [p \in {3} |-> "idle"]
  /\ system_runs = [s \in Systems |-> 0]
  /\ emote_regions = Empty
  /\ debug_settings = [show_kinematic_colliders |-> FALSE, show_damage_regions |-> FALSE]
  /\ debug_context = None
  /\ rigid_body_set = Empty
  /\ paths = Empty
  /\ shared_resources = {"AudioCenter"}
  /\ sessions = [n \in {"audio"} |-> <<"music_system">>]
  /\ fault = FALSE
  /\ audio_center = <<>>
  /\ trauma_events = <<>>

ApplyPostUpdate == pc = "apply_post_update" /\ ApplyCommands

NextLit ==
  \/ UpdateLit
  \/ UpdateIdle
  \/ ApplyPostUpdate

SpecLit == InitLit /\ [][NextLit]_vars

(***************************************************************************)
(* SpecLast: the Last stage of one tick and the application of its         *)
(* commands, from every state one item and two players can be in when the  *)
(* stage starts.  The item is free, held, just grabbed or just dropped,    *)
(* with or without a drop request; it carries a one-shot throw system or   *)
(* none; it has a spawner or none.  The player concerned faces left or     *)
(* right and holds the stick in any of the drawn directions.               *)
(***************************************************************************)
ThrownItem == LitBomb
StickValues == {-10, -1, 0, 1, 10}
ItemStatuses ==
  {"free", "free_drop_requested", "held", "held_drop_requested", "grabbed", "dropped"}

InitLast ==
  /\ pc = "grab_items"
  /\ meta = [kickable |-> TRUE, explode_on_contact |-> FALSE,
             fuse_time |-> FuseTime, arm_delay |-> ArmDelay]
  /\ delta = 1
  /\ \E status \in ItemStatuses, p \in Players, x \in StickValues, y \in StickValues,
        jump \in BOOLEAN, ragdoll \in BOOLEAN, flip \in BOOLEAN,
        has_system \in BOOLEAN, has_spawner \in BOOLEAN :
       LET holds == status \in {"held", "held_drop_requested", "grabbed"}
           attached == status \in {"held", "held_drop_requested", "dropped"}
       IN
       /\ alive = Spawners \cup Players \cup {ThrownItem}
       /\ hydrated = IF has_spawner THEN {1, ThrownItem} ELSE {}
       /\ element_handles =
            [e \in Spawners \cup (IF has_spawner THEN {ThrownItem} ELSE {}) |->
               IF e = 2 THEN ElementData(2) ELSE ElementData(1)]
       /\ respawn_points = IF has_spawner THEN [e \in {ThrownItem} |-> 1] ELSE Empty
       /\ spawner_manager = IF has_spawner THEN [e \in {1} |-> <<ThrownItem>>] ELSE Empty
       /\ item_throws =
            [e \in {ThrownItem} |->
               IF has_system
               THEN with_system(with_spin(ItemThrow_strength(ThrowVelocity),
                                          AngularVelocity), "effect")
               ELSE with_spin(ItemThrow_strength(ThrowVelocity), AngularVelocity)]
       /\ atlas_sprites =
            [e \in Players \cup {ThrownItem} |->
               IF e = ThrownItem THEN [atlas |-> "item", flip_x |-> FALSE]
               ELSE [atlas |-> "player", flip_x |-> (e = p /\ flip)]]
       /\ bodies = [e \in {ThrownItem} |-> [DefaultBody EXCEPT !.is_deactivated = attached]]
       /\ attachments =
            IF attached
            THEN [e \in {ThrownItem} |->
                    [player |-> p, sync_animation |-> FALSE, sync_color |-> FALSE,
                     head |-> FALSE, offset |-> <<1, 0>>]]
            ELSE Empty
       /\ inventories = [q \in Players |-> IF q = p /\ holds THEN Some(ThrownItem) ELSE None]
       /\ items_grabbed = IF status = "grabbed" THEN [e \in {ThrownItem} |-> p] ELSE Empty
       /\ items_dropped = IF status = "dropped" THEN [e \in {ThrownItem} |-> p] ELSE Empty
       /\ drop_items_req =
            IF status \in {"free_drop_requested", "held_drop_requested"}
            THEN {ThrownItem} ELSE {}
       /\ player_layers =
            [q \in Players |-> IF q = p /\ attached THEN "item_fin" ELSE "none"]
       /\ player_inputs =
            [q \in Players |->
               IF q = p
               THEN [move_direction |-> <<x, y>>, jump_pressed |-> jump,
                     jump_just_pressed |-> jump, ragdoll_just_pressed |-> ragdoll]
               ELSE DefaultControl]
  /\ killed = {}
  /\ commands = <<>>
  /\ kick_bomb_handles = {}
  /\ items = {ThrownItem}
  /\ item_grabs = [e \in {ThrownItem} |->
                     [fin_anim |-> "item_fin", sync_animation |-> FALSE,
                      grab_offset |-> <<1, 0>>]]
  /\ animated_sprites = Empty
  /\ transforms = [e \in alive |-> IF e \in Players THEN PlayerTransform ELSE SpawnerTransform]
  /\ idle_bombs = {}
  /\ lit_bombs = Empty
  /\ lit_age = Empty
  /\ items_used = Empty
  /\ damage_regions = Empty
  /\ lifetimes = Empty
  /\ invincibles = {}
  /\ collision_world = Empty
  /\ audio_center = <<>>
  /\ trauma_events = <<>>
  /\ player_states = [q \in Players |-> [current |-> "idle", age |-> 0]]
  /\ animations = [q \in Players |-> "idle"]
  /\ system_runs = [sys \in Systems |-> 0]
  /\ emote_regions = Empty
  /\ debug_settings = [show_kinematic_colliders |-> FALSE, show_damage_regions |-> FALSE]
  /\ debug_context = None
  /\ rigid_body_set = Empty
  /\ paths = Empty
  /\ shared_resources = {"AudioCenter"}
  /\ sessions = [n \in {"audio"} |-> <<"music_system">>]
  /\ fault = FALSE

ApplyLast == pc = "apply_last" /\ ApplyCommands

NextLast ==
  \/ GrabItems
  \/ DropItems
  \/ ThrowDroppedItems
  \/ ApplyLast

SpecLast == InitLast /\ [][NextLast]_vars

(***************************************************************************)
(* SpecThrow: throw_dropped_items and the flush of the Last stage for one  *)
(* dropped item whose lookups can miss.  The entity named by the dropped   *)
(* marker is a player, alive or not, with an AtlasSprite or without, or an *)
(* entity that is no player; the item has no spawner, the spawner of       *)
(* slot 1, or a spawner without a map layer.                               *)
(***************************************************************************)
Throwers == Players \cup {ThrownItem + 1}
ItemSpawners == {"none", "slot", "no_layer"}

InitThrow ==
  /\ pc = "throw_dropped_items"
  /\ meta = [kickable |-> TRUE, explode_on_contact |-> FALSE,
             fuse_time |-> FuseTime, arm_delay |-> ArmDelay]
  /\ delta = 1
  /\ \E p \in Throwers, lives \in BOOLEAN, sprite \in BOOLEAN, spawner \in ItemSpawners,
        x \in {-10, 0, 10}, y \in {-10, 0, 10}, flip \in BOOLEAN, has_system \in BOOLEAN :
       /\ p \notin Players => ~lives /\ ~sprite /\ ~flip
       /\ alive = Spawners \cup {q \in Players : q # p \/ lives} \cup {ThrownItem}
       /\ hydrated = IF spawner = "slot" THEN {1, ThrownItem} ELSE {}
       /\ element_handles =
            [e \in Spawners \cup (IF spawner = "slot" THEN {ThrownItem} ELSE {}) |->
               IF e = 2 THEN ElementData(2) ELSE ElementData(1)]
       /\ respawn_points =
            IF spawner = "none" THEN Empty
            ELSE [e \in {ThrownItem} |-> IF spawner = "slot" THEN 1 ELSE ThrownItem + 2]
       /\ spawner_manager =
            IF spawner = "slot" THEN [e \in {1} |-> <<ThrownItem>>] ELSE Empty
       /\ item_throws =
            [e \in {ThrownItem} |->
               IF has_system
               THEN with_system(with_spin(ItemThrow_strength(ThrowVelocity),
                                          AngularVelocity), "effect")
               ELSE with_spin(ItemThrow_strength(ThrowVelocity), AngularVelocity)]
       /\ atlas_sprites =
            [e \in {q \in Players : q # p \/ sprite} \cup {ThrownItem} |->
               IF e = ThrownItem THEN [atlas |-> "item", flip_x |-> FALSE]
               ELSE [atlas |-> "player", flip_x |-> (e = p /\ flip)]]
       /\ attachments =
            [e \in {ThrownItem} |->
               [player |-> p, sync_animation |-> FALSE, sync_color |-> FALSE,
                head |-> FALSE, offset |-> <<1, 0>>]]
       /\ items_dropped = [e \in {ThrownItem} |-> p]
       /\ player_layers = [q \in Players |-> IF q = p THEN "item_fin" ELSE "none"]
       /\ player_inputs =
            [q \in Players |->
               IF q = p THEN [DefaultControl EXCEPT !.move_direction = <<x, y>>]
               ELSE DefaultControl]
       /\ transforms =
            [e \in Spawners \cup Players \cup {ThrownItem} |->
               IF e \in Players THEN PlayerTransform ELSE SpawnerTransform]
  /\ bodies = [e \in {ThrownItem} |-> [DefaultBody EXCEPT !.is_deactivated = TRUE]]
  /\ inventories = [q \in Players |-> None]
  /\ items_grabbed = Empty
  /\ drop_items_req = {}
  /\ killed = {}
  /\ commands = <<>>
  /\ kick_bomb_handles = {}
  /\ items = {ThrownItem}
  /\ item_grabs = [e \in {ThrownItem} |->
                     [fin_anim |-> "item_fin", sync_animation |-> FALSE,
                      grab_offset |-> <<1, 0>>]]
  /\ animated_sprites = Empty
  /\ idle_bombs = {}
  /\ lit_bombs = Empty
  /\ lit_age = Empty
  /\ items_used = Empty
  /\ damage_regions = Empty
  /\ lifetimes = Empty
  /\ invincibles = {}
  /\ collision_world = Empty
  /\ audio_center = <<>>
  /\ trauma_events = <<>>
  /\ player_states = [q \in Players |-> [current |-> "idle", age |-> 0]]
  /\ animations = [q \in Players |-> "idle"]
  /\ system_runs = [sys \in Systems |-> 0]
  /\ emote_regions = Empty
  /\ debug_settings = [show_kinematic_colliders |-> FALSE, show_damage_regions |-> FALSE]
  /\ debug_context = None
  /\ rigid_body_set = Empty
  /\ paths = Empty
  /\ shared_resources = {"AudioCenter"}
  /\ sessions = [n \in {"audio"} |-> <<"music_system">>]
  /\ fault = FALSE

NextThrow ==
  \/ ThrowDroppedItems
  \/ ApplyLast

SpecThrow == InitThrow /\ [][NextThrow]_vars

(***************************************************************************)
(* The walk state of the player state machine (walk.rs).  Stick values and *)
(* horizontal velocities are in tenths.  The player's statistics come from *)
(* the player asset.                                                       *)
(***************************************************************************)
JumpSpeed == 17
AccelWalkSpeed == 2
WalkSpeed == 5

Max(a, b) == IF a >= b THEN a ELSE b

\* f32::is_sign_positive on the stick values drawn (none is a negative zero).
is_sign_positive(x) == x >= 0

\* The entities player_state_transition iterates.
WalkTransitionPlayers(w) ==
  w.alive \cap DOMAIN player_indexes \cap DOMAIN w.player_states \cap DOMAIN w.bodies

\* A variant of the transition that tests the stick before the ground.
walk_transition_player_stick_first(w, p) ==
  IF w.player_states[p].current # "walk" THEN w
  ELSE
    LET control == w.player_inputs[p]
        body == w.bodies[p]
    IN  IF control.ragdoll_just_pressed
        THEN [w EXCEPT !.player_states[p].current = "ragdoll"]
        ELSE IF control.move_direction[1] = 0
        THEN [w EXCEPT !.player_states[p].current = "idle"]
        ELSE IF control.move_direction[2] < -5
        THEN [w EXCEPT !.player_states[p].current = "crouch"]
        ELSE IF ~body.is_on_ground
        THEN [w EXCEPT !.player_states[p].current = "midair"]
        ELSE w

\* A variant of the transition without the guard on the horizontal stick.
walk_transition_player_no_idle(w, p) ==
  IF w.player_states[p].current # "walk" THEN w
  ELSE
    LET control == w.player_inputs[p]
        body == w.bodies[p]
    IN  IF control.ragdoll_just_pressed
        THEN [w EXCEPT !.player_states[p].current = "ragdoll"]
        ELSE IF ~body.is_on_ground
        THEN [w EXCEPT !.player_states[p].current = "midair"]
        ELSE IF control.move_direction[2] < -5
        THEN [w EXCEPT !.player_states[p].current = "crouch"]
        ELSE w

\* player_state_transition, for one player.
walk_transition_player(w, p) ==
  IF w.player_states[p].current # "walk" THEN w
  ELSE
    LET control == w.player_inputs[p]
        body == w.bodies[p]
    IN  IF control.ragdoll_just_pressed
        THEN [w EXCEPT !.player_states[p].current = "ragdoll"]
        ELSE IF ~body.is_on_ground
        THEN [w EXCEPT !.player_states[p].current = "midair"]
        ELSE IF control.move_direction[2] < -5
        THEN [w EXCEPT !.player_states[p].current = "crouch"]
        ELSE IF control.move_direction[1] = 0
        THEN [w EXCEPT !.player_states[p].current = "idle"]
        ELSE w

RECURSIVE walk_transition_loop(_, _)
walk_transition_loop(w, ents) ==
  IF ents = <<>> THEN w
  ELSE walk_transition_loop(walk_transition_player(w, Head(ents)), Tail(ents))

player_state_transition(w) ==
  walk_transition_loop(w, SetToSeq(WalkTransitionPlayers(w)))

\* The entities handle_player_state iterates.
WalkUpdatePlayers(w) ==
  w.alive \cap DOMAIN w.player_states \cap DOMAIN player_indexes
    \cap DOMAIN w.animations \cap DOMAIN w.atlas_sprites \cap DOMAIN w.bodies

\* A variant of the walk effects that jumps on every tick the button is down.
walk_effects_jump_while_held(w, p) ==
  LET control == w.player_inputs[p]
      x == control.move_direction[1]
      body == w.bodies[p]
      vy == IF control.jump_pressed THEN JumpSpeed ELSE body.velocity[2]
      accelerated == body.velocity[1] + AccelWalkSpeed * x
      vx == IF is_sign_positive(x)
            THEN Min(accelerated, WalkSpeed * x)
            ELSE Max(accelerated, WalkSpeed * x)
  IN  [w EXCEPT
        !.animations[p] = IF w.player_states[p].age = 0 THEN "walk" ELSE @,
        !.audio_center = IF control.jump_pressed THEN Append(@, "jump") ELSE @,
        !.bodies[p].velocity = <<vx, vy>>,
        !.atlas_sprites[p].flip_x = IF x > 0 THEN FALSE ELSE IF x < 0 THEN TRUE ELSE @]

\* A variant of the walk effects that clamps to the walk speed, not to the
\* walk speed scaled by the stick.
walk_effects_clamp_unscaled(w, p) ==
  LET control == w.player_inputs[p]
      x == control.move_direction[1]
      body == w.bodies[p]
      vy == IF control.jump_just_pressed THEN JumpSpeed ELSE body.velocity[2]
      accelerated == body.velocity[1] + AccelWalkSpeed * x
      vx == IF is_sign_positive(x)
            THEN Min(accelerated, WalkSpeed * 10)
            ELSE Max(accelerated, -(WalkSpeed * 10))
  IN  [w EXCEPT
        !.animations[p] = IF w.player_states[p].age = 0 THEN "walk" ELSE @,
        !.audio_center = IF control.jump_just_pressed THEN Append(@, "jump") ELSE @,
        !.bodies[p].velocity = <<vx, vy>>,
        !.atlas_sprites[p].flip_x = IF x > 0 THEN FALSE ELSE IF x < 0 THEN TRUE ELSE @]

\* The effects of the walk state on one player: animation on the first
\* frame, jump, acceleration clamped to the walk speed, facing.
walk_effects(w, p) ==
  LET control == w.player_inputs[p]
      x == control.move_direction[1]
      body == w.bodies[p]
      vy == IF control.jump_just_pressed THEN JumpSpeed ELSE body.velocity[2]
      accelerated == body.velocity[1] + AccelWalkSpeed * x
      vx == IF is_sign_positive(x)
            THEN Min(accelerated, WalkSpeed * x)
            ELSE Max(accelerated, WalkSpeed * x)
  IN  [w EXCEPT
        !.animations[p] = IF w.player_states[p].age = 0 THEN "walk" ELSE @,
        !.audio_center = IF control.jump_just_pressed THEN Append(@, "jump") ELSE @,
        !.bodies[p].velocity = <<vx, vy>>,
        !.atlas_sprites[p].flip_x = IF x > 0 THEN FALSE ELSE IF x < 0 THEN TRUE ELSE @]

\* A variant of the update that does not look at the player's state.
walk_update_player_any_state(w, p) == walk_effects(w, p)

\* handle_player_state, for one player.
walk_update_player(w, p) ==
  IF w.player_states[p].current # "walk" THEN w ELSE walk_effects(w, p)

RECURSIVE walk_update_loop(_, _)
walk_update_loop(w, ents) ==
  IF ents = <<>> THEN w
  ELSE walk_update_loop(walk_update_player(w, Head(ents)), Tail(ents))

handle_player_state(w) ==
  walk_update_loop(w, SetToSeq(WalkUpdatePlayers(w)))

(***************************************************************************)
(* SpecWalk: the walk transition system and then the walk update system of *)
(* one tick, from every state the first player can be in (walking or idle, *)
(* new in the state or not, on the ground or not, any stick position and   *)
(* buttons, the jump button new, held or up, any velocity and facing) next *)
(* to a second player that walks or idles.                                 *)
(***************************************************************************)
WalkStickX == {-10, 0, 5, 10}
WalkStickY == {-6, -5, 0}
WalkVelocities == {-60, 0, 45, 60}
WalkStates == {"walk", "idle"}

InitWalk ==
  /\ pc = "walk_transition"
  /\ meta = [kickable |-> TRUE, explode_on_contact |-> FALSE,
             fuse_time |-> FuseTime, arm_delay |-> ArmDelay]
  /\ delta = 1
  /\ alive = Spawners \cup Players
  /\ \E current \in WalkStates, age \in {0, 1}, x \in WalkStickX, y \in WalkStickY,
        jump \in BOOLEAN, held \in BOOLEAN, ragdoll \in BOOLEAN, flip \in BOOLEAN,
        on_ground \in BOOLEAN, vx \in WalkVelocities, vy \in {-3, 0},
        other \in WalkStates, other_x \in {0, 10} :
       LET first == CHOOSE q \in Players : \A o \in Players : q <= o
       IN
       /\ player_states =
            [q \in Players |->
               IF q = first THEN [current |-> current, age |-> age]
               ELSE [current |-> other, age |-> 1]]
       /\ player_inputs =
            [q \in Players |->
               IF q = first
               THEN [move_direction |-> <<x, y>>, jump_pressed |-> jump \/ held,
                     jump_just_pressed |-> jump, ragdoll_just_pressed |-> ragdoll]
               ELSE [DefaultControl EXCEPT !.move_direction = <<other_x, 0>>]]
       /\ bodies =
            [q \in Players |->
               IF q = first
               THEN [velocity |-> <<vx, vy>>, angular_velocity |-> 0,
                     is_deactivated |-> FALSE, is_on_ground |-> on_ground]
               ELSE [velocity |-> <<0, 0>>, angular_velocity |-> 0,
                     is_deactivated |-> FALSE, is_on_ground |-> TRUE]]
       /\ atlas_sprites =
            [q \in Players |-> [atlas |-> "player", flip_x |-> (q = first /\ flip)]]
       /\ animations =
            [q \in Players |->
               IF q = first
               THEN (IF current = "walk" /\ age = 1 THEN "walk" ELSE "idle")
               ELSE other]
  /\ killed = {}
  /\ commands = <<>>
  /\ hydrated = {}
  /\ element_handles = [e \in Spawners |-> IF e = 2 THEN ElementData(2) ELSE ElementData(1)]
  /\ respawn_points = Empty
  /\ spawner_manager = Empty
  /\ kick_bomb_handles = {}
  /\ items = {}
  /\ item_throws = Empty
  /\ item_grabs = Empty
  /\ animated_sprites = Empty
  /\ transforms = [e \in alive |-> IF e \in Players THEN PlayerTransform ELSE SpawnerTransform]
  /\ idle_bombs = {}
  /\ lit_bombs = Empty
  /\ lit_age = Empty
  /\ items_used = Empty
  /\ items_grabbed = Empty
  /\ items_dropped = Empty
  /\ drop_items_req = {}
  /\ attachments = Empty
  /\ inventories = [q \in Players |-> None]
  /\ player_layers = [q \in Players |-> "none"]
  /\ damage_regions = Empty
  /\ lifetimes = Empty
  /\ invincibles = {}
  /\ collision_world = Empty
  /\ audio_center = <<>>
  /\ trauma_events = <<>>
  /\ system_runs = [sys \in Systems |-> 0]
  /\ emote_regions = Empty
  /\ debug_settings = [show_kinematic_colliders |-> FALSE, show_damage_regions |-> FALSE]
  /\ debug_context = None
  /\ rigid_body_set = Empty
  /\ paths = Empty
  /\ shared_resources = {"AudioCenter"}
  /\ sessions = [n \in {"audio"} |-> <<"music_system">>]
  /\ fault = FALSE

WalkTransition ==
  /\ pc = "walk_transition"
  /\ ~fault
  /\ Commit(player_state_transition(World))
  /\ pc' = "walk_update"
  /\ UNCHANGED <<meta, delta, sessions, shared_resources, debug_settings, emote_regions>>

WalkUpdate ==
  /\ pc = "walk_update"
  /\ ~fault
  /\ Commit(handle_player_state(World))
  /\ pc' = "walk_done"
  /\ UNCHANGED <<meta, delta, sessions, shared_resources, debug_settings, emote_regions>>

NextWalk ==
  \/ WalkTransition
  \/ WalkUpdate

SpecWalk == InitWalk /\ [][NextWalk]_vars

(***************************************************************************)
(* SpecSpawn: one queued spawn_kick_bomb command and its application.  The *)
(* command names no entity, an entity hydrate has just created, or a bomb  *)
(* that already has its components; its metadata handle is that of a kick  *)
(* bomb or of another element; the bomb is to be lit or not, with or       *)
(* without the facing of the player that fires it.                         *)
(***************************************************************************)
SpawnTargets == {"none", "created", "bomb"}
SpawnHandles == {"kick_bomb", "crate"}

InitSpawn ==
  /\ pc = "apply_pre_update"
  /\ meta = [kickable |-> TRUE, explode_on_contact |-> FALSE,
             fuse_time |-> FuseTime, arm_delay |-> ArmDelay]
  /\ delta = 1
  /\ \E target \in SpawnTargets, handle \in SpawnHandles, lit \in BOOLEAN,
        player_flip_f \in {None, Some(FALSE), Some(TRUE)},
        transform \in {SpawnerTransform, ThrownTransform}, hydrated_slot \in BOOLEAN :
       LET named == IF target = "none" THEN {} ELSE {LitBomb}
           bombs == IF target = "bomb" THEN {LitBomb} ELSE {}
       IN
       /\ alive = Spawners \cup Players \cup named
       /\ hydrated = IF hydrated_slot THEN {1} \cup named ELSE {}
       /\ element_handles =
            [e \in Spawners \cup (IF hydrated_slot THEN named ELSE {}) |->
               IF e = 2 THEN ElementData(2) ELSE ElementData(1)]
       /\ respawn_points = IF hydrated_slot THEN [e \in named |-> 1] ELSE Empty
       /\ spawner_manager =
            IF hydrated_slot /\ named # {} THEN [e \in {1} |-> <<LitBomb>>] ELSE Empty
       /\ commands =
            <<[type |-> "spawn_kick_bomb",
               entity |-> IF target = "none" THEN None ELSE Some(LitBomb),
               transform |-> transform, kick_bomb_meta_handle |-> handle,
               lit |-> lit, player_flip_f |-> player_flip_f]>>
       /\ kick_bomb_handles = bombs
       /\ items = bombs
       /\ idle_bombs = bombs
       /\ item_throws =
            [e \in bombs |-> with_spin(ItemThrow_strength(ThrowVelocity), AngularVelocity)]
       /\ item_grabs =
            [e \in bombs |-> [fin_anim |-> "kick_bomb_fin", sync_animation |-> FALSE,
                              grab_offset |-> <<1, 0>>]]
       /\ atlas_sprites =
            [e \in Players \cup bombs |->
               IF e \in Players THEN [atlas |-> "player", flip_x |-> FALSE]
               ELSE [atlas |-> "kick_bomb", flip_x |-> FALSE]]
       /\ animated_sprites = [e \in bombs |-> [frames |-> <<>>, fps |-> 0, repeat |-> TRUE]]
       /\ transforms =
            [e \in Spawners \cup Players \cup bombs |->
               IF e \in Players THEN PlayerTransform ELSE SpawnerTransform]
       /\ bodies = [e \in bombs |-> [DefaultBody EXCEPT !.velocity = <<94, 74>>]]
  /\ killed = {}
  /\ lit_bombs = Empty
  /\ lit_age = Empty
  /\ items_used = Empty
  /\ items_grabbed = Empty
  /\ items_dropped = Empty
  /\ drop_items_req = {}
  /\ attachments = Empty
  /\ inventories = [q \in Players |-> None]
  /\ player_layers = [q \in Players |-> "none"]
  /\ damage_regions = Empty
  /\ lifetimes = Empty
  /\ invincibles = {}
  /\ collision_world = Empty
  /\ player_inputs = [q \in Players |-> DefaultControl]
  /\ audio_center = <<>>
  /\ trauma_events = <<>>
  /\ player_states = [q \in Players |-> [current |-> "idle", age |-> 0]]
  /\ animations = [q \in Players |-> "idle"]
  /\ system_runs = [sys \in Systems |-> 0]
  /\ emote_regions = Empty
  /\ debug_settings = [show_kinematic_colliders |-> FALSE, show_damage_regions |-> FALSE]
  /\ debug_context = None
  /\ rigid_body_set = Empty
  /\ paths = Empty
  /\ shared_resources = {"AudioCenter"}
  /\ sessions = [n \in {"audio"} |-> <<"music_system">>]
  /\ fault = FALSE

ApplySpawn == pc = "apply_pre_update" /\ ApplyCommands

NextSpawn == ApplySpawn

SpecSpawn == InitSpawn /\ [][NextSpawn]_vars

(***************************************************************************)
(* The audio plugin (audio.rs) and SpecAudio: its installation into a game *)
(* that has any of the sessions below, the audio session with any of the   *)
(* First stages below, and any of the shared resources below.              *)
(***************************************************************************)
\* Game::sessions.modify_and_replace_existing_session: None when the game
\* has no session of that name, else the session rebuilt with the
\* systems given added to its First stage.
modify_and_replace_existing_session(game_sessions, name, systems) ==
  IF name \in DOMAIN game_sessions
  THEN Some([game_sessions EXCEPT ![name] = @ \o systems])
  ELSE None

\* A variant of the plugin that goes on when the audio session is missing.
game_plugin_missing_session_ignored(game) ==
  LET modified_session ==
        modify_and_replace_existing_session(game.sessions, "audio", <<"music_system">>)
  IN  [sessions |-> IF IsSome(modified_session)
                    THEN Unwrap(modified_session) ELSE game.sessions,
       shared_resources |-> game.shared_resources \cup {"AudioCenter"},
       fault |-> FALSE]

game_plugin(game) ==
  LET modified_session ==
        modify_and_replace_existing_session(game.sessions, "audio", <<"music_system">>)
  IN  [sessions |-> IF IsSome(modified_session)
                    THEN Unwrap(modified_session) ELSE game.sessions,
       shared_resources |-> game.shared_resources \cup {"AudioCenter"},
       fault |-> ~IsSome(modified_session)]

SessionNames == {"audio", "core", "menu", "pause"}
FirstStages ==
  {<<>>, <<"process_audio_events">>, <<"process_audio_events", "kill_finished_audios">>,
   <<"music_system">>}
SharedResources == {"AudioCenter", "EguiCtx"}

InitAudio ==
  /\ pc = "install_audio"
  /\ meta = [kickable |-> TRUE, explode_on_contact |-> FALSE,
             fuse_time |-> FuseTime, arm_delay |-> ArmDelay]
  /\ delta = 1
  /\ \E names \in SUBSET SessionNames, first \in FirstStages :
       sessions = [n \in names |-> IF n = "audio" THEN first ELSE <<"update_input">>]
  /\ shared_resources \in SUBSET SharedResources
  /\ alive = {}
  /\ killed = {}
  /\ commands = <<>>
  /\ hydrated = {}
  /\ element_handles = Empty
  /\ respawn_points = Empty
  /\ spawner_manager = Empty
  /\ kick_bomb_handles = {}
  /\ items = {}
  /\ idle_bombs = {}
  /\ item_throws = Empty
  /\ item_grabs = Empty
  /\ atlas_sprites = Empty
  /\ animated_sprites = Empty
  /\ transforms = Empty
  /\ bodies = Empty
  /\ lit_bombs = Empty
  /\ lit_age = Empty
  /\ items_used = Empty
  /\ items_grabbed = Empty
  /\ items_dropped = Empty
  /\ drop_items_req = {}
  /\ attachments = Empty
  /\ inventories = Empty
  /\ player_layers = Empty
  /\ damage_regions = Empty
  /\ lifetimes = Empty
  /\ invincibles = {}
  /\ collision_world = Empty
  /\ player_inputs = Empty
  /\ audio_center = <<>>
  /\ trauma_events = <<>>
  /\ player_states = Empty
  /\ animations = Empty
  /\ system_runs = [sys \in Systems |-> 0]
  /\ emote_regions = Empty
  /\ debug_settings = [show_kinematic_colliders |-> FALSE, show_damage_regions |-> FALSE]
  /\ debug_context = None
  /\ rigid_body_set = Empty
  /\ paths = Empty
  /\ fault = FALSE

InstallAudio ==
  /\ pc = "install_audio"
  /\ ~fault
  /\ LET game == game_plugin([sessions |-> sessions,
                              shared_resources |-> shared_resources, fault |-> fault])
     IN  /\ sessions' = game.sessions
         /\ shared_resources' = game.shared_resources
         /\ fault' = game.fault
  /\ pc' = "installed"
  /\ UNCHANGED <<paths, rigid_body_set, debug_context, debug_settings, emote_regions>>
  /\ UNCHANGED <<meta, delta, alive, killed, commands, hydrated, element_handles,
                 respawn_points, spawner_manager, kick_bomb_handles, items, item_throws,
                 item_grabs, atlas_sprites, animated_sprites, transforms, bodies,
                 idle_bombs, lit_bombs, items_used, items_grabbed, items_dropped,
                 drop_items_req, attachments, inventories, player_layers, damage_regions,
                 lifetimes, invincibles, collision_world, player_inputs, audio_center,
                 trauma_events, lit_age, player_states, animations, system_runs>>

NextAudio == InstallAudio

SpecAudio == InitAudio /\ [][NextAudio]_vars

(***************************************************************************)
(* SpecContact: the PostUpdate stage of one tick for a Lit bomb whose fuse *)
(* does not end in it, next to two players.  The collision query returns   *)
(* none, one or both players, in either order; each player is left of, at  *)
(* or right of the bomb, faces left or right, is invincible or not.  The   *)
(* arm delay ends in this tick or does not.                                *)
(***************************************************************************)
ContactOrders == {<<>>, <<3>>, <<4>>, <<3, 4>>, <<4, 3>>}
ContactAges == {LitArmDelay - 2, LitArmDelay - 1}
ContactKicks == {<<0, FALSE>>, <<3, FALSE>>, <<3, TRUE>>}

InitContact ==
  /\ pc = "update_lit_kick_bombs"
  /\ meta \in [kickable : BOOLEAN, explode_on_contact : BOOLEAN,
               fuse_time : {LitFuseTime}, arm_delay : {LitArmDelay}]
  /\ delta = 1
  /\ \E t \in ContactAges, kicked \in ContactKicks,
        velocity \in {<<0, 0>>, <<94, 74>>}, held \in BOOLEAN,
        overlap \in ContactOrders, flips \in SUBSET Players, inv \in SUBSET Players,
        px3 \in {1, 2, 3}, px4 \in {1, 3} :
       /\ kicked[1] >= 1 => meta.kickable
       /\ transforms =
            [e \in Spawners \cup Players \cup {LitBomb} |->
               IF e = LitBomb THEN ThrownTransform
               ELSE IF e = 3 THEN [PlayerTransform EXCEPT !.x = px3]
               ELSE IF e = 4 THEN [PlayerTransform EXCEPT !.x = px4]
               ELSE SpawnerTransform]
       /\ bodies = [e \in {LitBomb} |->
                      [DefaultBody EXCEPT !.velocity = velocity, !.is_deactivated = held]]
       /\ lit_bombs = [e \in {LitBomb} |->
                         [arm_delay |-> [duration |-> meta.arm_delay, elapsed |-> t],
                          fuse_time |-> [duration |-> meta.fuse_time, elapsed |-> t],
                          kicking |-> kicked[2], kicks |-> kicked[1]]]
       /\ lit_age = [e \in {LitBomb} |-> t]
       /\ attachments =
            IF held
            THEN [e \in {LitBomb} |->
                    [player |-> 3, sync_animation |-> FALSE, sync_color |-> FALSE,
                     head |-> FALSE, offset |-> <<1, 0>>]]
            ELSE Empty
       /\ inventories = [p \in Players |-> IF held /\ p = 3 THEN Some(LitBomb) ELSE None]
       /\ atlas_sprites =
            [e \in Players \cup {LitBomb} |->
               IF e \in Players THEN [atlas |-> "player", flip_x |-> e \in flips]
               ELSE [atlas |-> "kick_bomb", flip_x |-> FALSE]]
       /\ invincibles = inv
       /\ collision_world = [e \in {LitBomb} |-> overlap]
  /\ alive = Spawners \cup Players \cup {LitBomb}
  /\ hydrated = {}
  /\ element_handles = [e \in Spawners |-> IF e = 2 THEN ElementData(2) ELSE ElementData(1)]
  /\ respawn_points = Empty
  /\ spawner_manager = Empty
  /\ killed = {}
  /\ commands = <<>>
  /\ kick_bomb_handles = {LitBomb}
  /\ items = {LitBomb}
  /\ item_throws = [e \in {LitBomb} |->
                      with_spin(ItemThrow_strength(ThrowVelocity), AngularVelocity)]
  /\ item_grabs = [e \in {LitBomb} |->
                     [fin_anim |-> "kick_bomb_fin", sync_animation |-> FALSE,
                      grab_offset |-> <<1, 0>>]]
  /\ animated_sprites = [e \in {LitBomb} |->
                           [frames |-> FrameRange(LitFramesStart, LitFramesEnd),
                            fps |-> 1, repeat |-> TRUE]]
  /\ idle_bombs = {}
  /\ items_used = Empty
  /\ items_grabbed = Empty
  /\ items_dropped = Empty
  /\ drop_items_req = {}
  /\ player_layers = [p \in Players |-> "none"]
  /\ damage_regions = Empty
  /\ lifetimes = Empty
  /\ player_inputs = [p \in Players |-> DefaultControl]
  /\ player_states = [p \in Players |-> [current |-> "idle", age |-> 0]]
  /\ animations = [p \in Players |-> "idle"]
  /\ system_runs = [s \in Systems |-> 0]
  /\ emote_regions = Empty
  /\ debug_settings = [show_kinematic_colliders |-> FALSE, show_damage_regions |-> FALSE]
  /\ debug_context = None
  /\ rigid_body_set = Empty
  /\ paths = Empty
  /\ shared_resources = {"AudioCenter"}
  /\ sessions = [n \in {"audio"} |-> <<"music_system">>]
  /\ fault = FALSE
  /\ audio_center = <<>>
  /\ trauma_events = <<>>

SpecContact == InitContact /\ [][NextLit]_vars

(***************************************************************************)
(* Debug rendering (debug.rs): three systems of the Last stage that draw   *)
(* the collider bodies, the damage regions and the emote regions as Path2d *)
(* line lists, by the DebugSettings resource.                              *)
(***************************************************************************)
DebugSettingsValues ==
  [show_kinematic_colliders : BOOLEAN, show_damage_regions : BOOLEAN]

\* DebugSettings::default.
DebugSettingsDefault ==
  [show_kinematic_colliders |-> FALSE, show_damage_regions |-> FALSE]

\* CollisionWorld::sync_bodies: the collider body of every entity that has a
\* Transform and a body is moved to the Transform and enabled unless the
\* body is deactivated.
sync_bodies(w) ==
  LET synced == w.alive \cap DOMAIN w.transforms \cap DOMAIN w.bodies
  IN  [w EXCEPT !.rigid_body_set =
        [e \in (DOMAIN w.rigid_body_set) \cup synced |->
           IF e \in synced
           THEN [position |-> <<w.transforms[e].x, w.transforms[e].y>>,
                 enabled |-> ~w.bodies[e].is_deactivated]
           ELSE w.rigid_body_set[e]]]

\* DebugRenderPipeline::render_colliders through RapierDebugBackend: the
\* lines of the enabled bodies.
render_colliders(set) ==
  {set[e].position : e \in {b \in DOMAIN set : set[b].enabled}}

\* ResMutInit<RapierDebugContext>: FromWorld::from_world on first use.
RapierDebugContext_from_world(w) ==
  IF IsSome(w.debug_context) THEN w
  ELSE LET path_entity == NextEntity(w)
       IN  [Create(w) EXCEPT
             !.transforms = Insert(@, path_entity,
                                   [x |-> 0, y |-> 0, z |-> -1, rotation |-> 0]),
             !.debug_context = Some(path_entity)]

debug_render_colliders(w, settings) ==
  LET w1 == RapierDebugContext_from_world(w)
      path_entity == Unwrap(w1.debug_context)
  IN  IF settings.show_kinematic_colliders
      THEN LET w2 == sync_bodies(w1)
           IN  [w2 EXCEPT !.paths =
                 Insert(@, path_entity,
                        [color |-> "orange",
                         lines |-> render_colliders(w2.rigid_body_set)])]
      ELSE [w1 EXCEPT !.paths = Remove(@, path_entity)]

\* path_for_region: the upright rectangle of a region.
path_for_region(color, rotation, region) ==
  [color |-> color, size |-> region.size, angle |-> -rotation]

\* The loop of debug_render_damage_regions and debug_render_emote_regions.
debug_render_regions(w, settings, regions, color) ==
  LET shown == w.alive \cap DOMAIN regions \cap DOMAIN w.transforms
  IN  IF settings.show_damage_regions
      THEN [w EXCEPT !.paths =
             [e \in (DOMAIN w.paths) \cup shown |->
                IF e \in shown
                THEN path_for_region(color, w.transforms[e].rotation, regions[e])
                ELSE w.paths[e]]]
      ELSE [w EXCEPT !.paths =
             [e \in (DOMAIN w.paths) \ (w.alive \cap DOMAIN regions) |-> w.paths[e]]]

debug_render_damage_regions(w, settings) ==
  debug_render_regions(w, settings, w.damage_regions, "red")

debug_render_emote_regions(w, settings) ==
  debug_render_regions(w, settings, emote_regions, "green")

\* The debug system that runs at each point of the Last stage.
DebugPoints ==
  {"debug_render_colliders", "debug_render_damage_regions", "debug_render_emote_regions"}

debug_system(p, w, settings) ==
  CASE p = "debug_render_colliders" -> debug_render_colliders(w, settings)
    [] p = "debug_render_damage_regions" -> debug_render_damage_regions(w, settings)
    [] p = "debug_render_emote_regions" -> debug_render_emote_regions(w, settings)

AfterDebug(p) ==
  CASE p = "debug_render_colliders" -> "debug_render_damage_regions"
    [] p = "debug_render_damage_regions" -> "debug_render_emote_regions"
    [] p = "debug_render_emote_regions" -> "apply_last"

(***************************************************************************)
(* SpecDebug: the debug systems of the Last stage of one tick and the      *)
(* stage's command flush, for every value of the debug settings.  An item  *)
(* is in a player's hands or free; its collider body is where the last     *)
(* physics step left it, which is where the item is or not.  A damage      *)
(* region and an emote region exist or not, and the paths of an earlier    *)
(* tick are there or not.                                                  *)
(***************************************************************************)
InitDebug ==
  /\ pc = "debug_render_colliders"
  /\ meta = [kickable |-> TRUE, explode_on_contact |-> FALSE,
             fuse_time |-> FuseTime, arm_delay |-> ArmDelay]
  /\ delta = 1
  /\ debug_settings \in DebugSettingsValues
  /\ \E held \in BOOLEAN, x \in {1, 2}, body_x \in {1, 2}, body_enabled \in BOOLEAN,
        region \in BOOLEAN, rotation \in {0, 1}, emote \in BOOLEAN,
        context \in BOOLEAN, drawn \in SUBSET (Pool \cup Players) :
       LET DebugRegion == ThrownItem + 1
           DebugPathEntity == ThrownItem + 2
       IN
       /\ ~region => rotation = 0
       /\ alive = Spawners \cup Players \cup {ThrownItem}
                    \cup (IF region THEN {DebugRegion} ELSE {})
                    \cup (IF context THEN {DebugPathEntity} ELSE {})
       /\ transforms =
            [e \in alive |->
               IF e \in Players THEN PlayerTransform
               ELSE IF e = ThrownItem THEN [PlayerTransform EXCEPT !.x = x]
               ELSE IF e = DebugRegion
               THEN [x |-> 2, y |-> 0, z |-> -10, rotation |-> rotation]
               ELSE IF e = DebugPathEntity THEN [x |-> 0, y |-> 0, z |-> -1, rotation |-> 0]
               ELSE SpawnerTransform]
       /\ bodies = [e \in {ThrownItem} |-> [DefaultBody EXCEPT !.is_deactivated = held]]
       /\ rigid_body_set =
            [e \in {ThrownItem} |-> [position |-> <<body_x, 1>>, enabled |-> body_enabled]]
       /\ attachments =
            IF held
            THEN [e \in {ThrownItem} |->
                    [player |-> 3, sync_animation |-> FALSE, sync_color |-> FALSE,
                     head |-> FALSE, offset |-> <<1, 0>>]]
            ELSE Empty
       /\ inventories = [q \in Players |-> IF q = 3 /\ held THEN Some(ThrownItem) ELSE None]
       /\ player_layers = [q \in Players |-> IF q = 3 /\ held THEN "item_fin" ELSE "none"]
       /\ damage_regions =
            IF region THEN [e \in {DebugRegion} |-> [size |-> DamageRegionSize]] ELSE Empty
       /\ lifetimes =
            IF region
            THEN [e \in {DebugRegion} |-> [lifetime |-> DamageRegionLifetime, age |-> 0]]
            ELSE Empty
       /\ emote_regions = IF emote THEN [e \in {3} |-> [size |-> Vec2(2, 2)]] ELSE Empty
       /\ debug_context = IF context THEN Some(DebugPathEntity) ELSE None
       /\ paths =
            [e \in drawn \cap ((IF region THEN {DebugRegion} ELSE {})
                                 \cup (IF context THEN {DebugPathEntity} ELSE {})
                                 \cup (IF emote THEN {3} ELSE {})) |->
               IF e = DebugPathEntity THEN [color |-> "orange", lines |-> {}]
               ELSE IF e = DebugRegion
               THEN path_for_region("red", rotation, [size |-> DamageRegionSize])
               ELSE path_for_region("green", 0, [size |-> Vec2(2, 2)])]
  /\ hydrated = {}
  /\ element_handles = [e \in Spawners |-> IF e = 2 THEN ElementData(2) ELSE ElementData(1)]
  /\ respawn_points = Empty
  /\ spawner_manager = Empty
  /\ killed = {}
  /\ commands = <<>>
  /\ kick_bomb_handles = {}
  /\ items = {ThrownItem}
  /\ item_throws = [e \in {ThrownItem} |->
                      with_spin(ItemThrow_strength(ThrowVelocity), AngularVelocity)]
  /\ item_grabs = [e \in {ThrownItem} |->
                     [fin_anim |-> "item_fin", sync_animation |-> FALSE,
                      grab_offset |-> <<1, 0>>]]
  /\ atlas_sprites =
       [e \in Players \cup {ThrownItem} |->
          IF e = ThrownItem THEN [atlas |-> "item", flip_x |-> FALSE]
          ELSE [atlas |-> "player", flip_x |-> FALSE]]
  /\ animated_sprites = Empty
  /\ idle_bombs = {}
  /\ lit_bombs = Empty
  /\ lit_age = Empty
  /\ items_used = Empty
  /\ items_grabbed = Empty
  /\ items_dropped = Empty
  /\ drop_items_req = {}
  /\ invincibles = {}
  /\ collision_world = Empty
  /\ audio_center = <<>>
  /\ trauma_events = <<>>
  /\ player_inputs = [q \in Players |-> DefaultControl]
  /\ player_states = [q \in Players |-> [current |-> "idle", age |-> 0]]
  /\ animations = [q \in Players |-> "idle"]
  /\ system_runs = [sys \in Systems |-> 0]
  /\ shared_resources = {"AudioCenter"}
  /\ sessions = [n \in {"audio"} |-> <<"music_system">>]
  /\ fault = FALSE

DebugRender ==
  /\ pc \in DebugPoints
  /\ ~fault
  /\ Commit(debug_system(pc, World, debug_settings))
  /\ pc' = AfterDebug(pc)
  /\ UNCHANGED <<meta, delta, sessions, shared_resources, debug_settings, emote_regions>>

NextDebug ==
  \/ DebugRender
  \/ ApplyLast

SpecDebug == InitDebug /\ [][NextDebug]_vars

\* The stage or command flush that follows each point of the tick.
StageAfter(p) ==
  CASE p = "update_lit_kick_bombs" -> "update_idle_kick_bombs"
    [] p = "update_idle_kick_bombs" -> "apply_post_update"
    [] p = "grab_items" -> "drop_items"
    [] p = "drop_items" -> "throw_dropped_items"
    [] p = "throw_dropped_items" -> "apply_last"
    [] p = "hydrate" -> "apply_pre_update"
    [] p = "update" -> "apply_update"
    [] OTHER -> AfterApply(p)

\* The session runs the next stage.
RunStage == pc' = StageAfter(pc)

\* The session runs the stages of every tick, for ever.
FairSpec == Spec /\ WF_pc(RunStage)

(***************************************************************************)
(* What the properties observe.                                            *)
(***************************************************************************)
\* The lit kick bombs update_lit_kick_bombs iterates.
LiveLit == alive \cap DOMAIN lit_bombs \cap kick_bomb_handles

ExplodeQueuedIn(queue, e) ==
  \E i \in 1..Len(queue) : queue[i].type = "explode" /\ queue[i].entity = e

ExplodeQueued(e) == ExplodeQueuedIn(commands, e)

IgniteQueuedIn(queue, e) ==
  \E i \in 1..Len(queue) : queue[i].type = "ignite" /\ queue[i].entity = e

\* A non-invincible player overlaps the bomb.
NonInvincibleContact(e) ==
  /\ e \in DOMAIN collision_world
  /\ \E i \in 1..Len(collision_world[e]) :
       collision_world[e][i] \in Players \ invincibles

\* The bomb is the inventory item of some player.
Held(e) == \E p \in DOMAIN inventories : inventories[p] = <<e>>

\* The markers an item carries.
Markers(e) ==
  (IF e \in DOMAIN items_grabbed THEN {"grabbed"} ELSE {})
    \cup (IF e \in DOMAIN items_dropped THEN {"dropped"} ELSE {})
    \cup (IF e \in DOMAIN items_used THEN {"used"} ELSE {})

(***************************************************************************)
(* C1.  A lit bomb explodes on the first tick at which the time its fuse   *)
(* has accumulated reaches the fuse duration, held or free, touched or     *)
(* not; and a bomb that explodes before that does so because a             *)
(* non-invincible player touches it, never because of the fuse.  The fuse  *)
(* timer holds the time accumulated since ignition, up to its duration.    *)
(***************************************************************************)
C1_FuseExplodesOnTime ==
  \A e \in LiveLit :
    /\ lit_bombs[e].fuse_time.duration = meta.fuse_time
    /\ lit_bombs[e].fuse_time.elapsed = Min(lit_age[e], meta.fuse_time)
    /\ lit_age[e] >= meta.fuse_time => ExplodeQueued(e)
    /\ (ExplodeQueued(e) /\ lit_age[e] < meta.fuse_time) => NonInvincibleContact(e)

\* A held bomb, touched by nobody, whose fuse has run out, explodes.
C1_Witness ==
  \E e \in LiveLit :
    /\ Held(e) /\ ~NonInvincibleContact(e)
    /\ lit_age[e] >= meta.fuse_time
    /\ ExplodeQueued(e)

(***************************************************************************)
(* C2.  After the lit update of a kickable bomb that is not held, whose    *)
(* fuse has not finished and whose arm delay has not completed: the bomb   *)
(* explodes if and only if its kick counter is above 3, that is when this  *)
(* tick's contact edge raised it to 4.                                     *)
(***************************************************************************)
C2_FourthKickExplodes ==
  pc \in {"update_idle_kick_bombs", "apply_post_update"} =>
    \A e \in LiveLit :
      ( /\ meta.kickable
        /\ ~Held(e)
        /\ lit_bombs[e].fuse_time.elapsed < lit_bombs[e].fuse_time.duration
        /\ lit_bombs[e].arm_delay.elapsed < lit_bombs[e].arm_delay.duration )
      => /\ lit_bombs[e].kicks <= 4
         /\ ExplodeQueued(e) <=> lit_bombs[e].kicks = 4

\* An un-armed bomb explodes on its fourth kick.
C2_Witness ==
  /\ pc = "update_idle_kick_bombs"
  /\ \E e \in LiveLit :
       /\ ~Held(e)
       /\ lit_bombs[e].fuse_time.elapsed < lit_bombs[e].fuse_time.duration
       /\ lit_bombs[e].arm_delay.elapsed < lit_bombs[e].arm_delay.duration
       /\ lit_bombs[e].kicks = 4
       /\ ExplodeQueued(e)

(***************************************************************************)
(* C3.  Over the lit update the kick counter never decreases.  When the    *)
(* fuse has not finished and the contact rule does not fire: a held bomb   *)
(* keeps its counter and has its kicking flag cleared; a free kickable     *)
(* bomb touched by a non-invincible player has the flag set and its        *)
(* counter raised by exactly 1 if the flag was clear, by 0 if it was set;  *)
(* a free kickable bomb touched by nobody keeps its counter and has the    *)
(* flag cleared.                                                           *)
(***************************************************************************)
C3_Tick(e) ==
  LET before == lit_bombs[e]
      after == lit_bombs'[e]
      early == \/ after.fuse_time.elapsed >= after.fuse_time.duration
               \/ /\ meta.explode_on_contact
                  /\ NonInvincibleContact(e)
                  /\ after.arm_delay.elapsed >= after.arm_delay.duration
  IN  /\ after.kicks >= before.kicks
      /\ (~early /\ Held(e)) => (after.kicks = before.kicks /\ ~after.kicking)
      /\ (~early /\ ~Held(e) /\ meta.kickable /\ NonInvincibleContact(e)) =>
           /\ after.kicking
           /\ after.kicks = before.kicks + (IF before.kicking THEN 0 ELSE 1)
      /\ (~early /\ ~Held(e) /\ meta.kickable /\ ~NonInvincibleContact(e)) =>
           /\ ~after.kicking
           /\ after.kicks = before.kicks

C3_KicksCountContactEdges ==
  [][pc = "update_lit_kick_bombs" => \A e \in LiveLit : C3_Tick(e)]_vars

\* A bomb lit for three ticks has just counted its second kick: it was
\* touched on the first tick, not on the second, and again on the third.
C3_Witness ==
  /\ pc = "update_idle_kick_bombs"
  /\ \E e \in LiveLit :
       /\ lit_age[e] = 3 * delta
       /\ lit_bombs[e].kicks = 2
       /\ lit_bombs[e].kicking
       /\ NonInvincibleContact(e)
       /\ ~ExplodeQueued(e)

(***************************************************************************)
(* C4.  On a lit update where the fuse does not finish and the contact     *)
(* rule does not fire, a bomb that is the inventory item of a player does  *)
(* not explode, keeps its kick counter and its velocity, and has its       *)
(* kicking flag clear afterwards.                                          *)
(***************************************************************************)
C4_Tick(e) ==
  LET before == lit_bombs[e]
      after == lit_bombs'[e]
      early == \/ after.fuse_time.elapsed >= after.fuse_time.duration
               \/ /\ meta.explode_on_contact
                  /\ NonInvincibleContact(e)
                  /\ after.arm_delay.elapsed >= after.arm_delay.duration
  IN  (Held(e) /\ ~early) =>
        /\ ~ExplodeQueuedIn(commands', e)
        /\ e \in alive'
        /\ after.kicks = before.kicks
        /\ bodies'[e].velocity = bodies[e].velocity
        /\ ~after.kicking

C4_HeldBombIsInert ==
  [][pc = "update_lit_kick_bombs" => \A e \in LiveLit : C4_Tick(e)]_vars

\* A held, kickable, moving bomb touched by a player has gone through the
\* lit update without exploding.
C4_Witness ==
  /\ pc = "update_idle_kick_bombs"
  /\ meta.kickable
  /\ \E e \in LiveLit :
       /\ Held(e) /\ NonInvincibleContact(e)
       /\ bodies[e].velocity # <<0, 0>>
       /\ lit_bombs[e].kicks = 3
       /\ ~ExplodeQueued(e)

(***************************************************************************)
(* C5.  When the commands of the stage in which a bomb exploded are        *)
(* applied: the bomb is no longer alive; exactly two entities are new, a   *)
(* damage region of the configured size and lifetime and an explosion      *)
(* visual with the configured frames, not repeating, and the configured    *)
(* lifetime; both stand at the bomb's last x and y, at depth -10, with     *)
(* the identity rotation; and the bomb's spawner, if it has one, is not    *)
(* hydrated.                                                               *)
(***************************************************************************)
C5_Applied(e) ==
  LET new == alive' \ alive
      place == [x |-> transforms[e].x, y |-> transforms[e].y, z |-> -10, rotation |-> 0]
  IN  /\ e \notin alive'
      /\ Cardinality(new) = 2
      /\ \E region \in new, visual \in new :
           /\ region # visual
           /\ region \in DOMAIN damage_regions'
           /\ damage_regions'[region].size = DamageRegionSize
           /\ region \in DOMAIN lifetimes'
           /\ lifetimes'[region] = [lifetime |-> DamageRegionLifetime, age |-> 0]
           /\ region \notin DOMAIN animated_sprites'
           /\ visual \in DOMAIN animated_sprites'
           /\ animated_sprites'[visual].frames = [i \in 1..ExplosionFrames |-> i - 1]
           /\ ~animated_sprites'[visual].repeat
           /\ visual \in DOMAIN lifetimes'
           /\ lifetimes'[visual] = [lifetime |-> ExplosionLifetime, age |-> 0]
           /\ visual \notin DOMAIN damage_regions'
           /\ transforms'[region] = place
           /\ transforms'[visual] = place
      /\ e \in DOMAIN respawn_points => respawn_points[e] \notin hydrated'

C5_ExplosionReplacesBomb ==
  [][pc = "apply_post_update" =>
       \A e \in LiveLit : ExplodeQueued(e) => C5_Applied(e)]_vars

\* A thrown bomb of a spawner has exploded away from its slot: the slot is
\* alive and not hydrated, the damage region stands where the bomb was.
C5_Witness ==
  /\ pc = "grab_items"
  /\ LitBomb \notin alive
  /\ 1 \in alive /\ 1 \notin hydrated
  /\ \E region \in alive \cap DOMAIN damage_regions :
       transforms[region] = [ThrownTransform EXCEPT !.z = -10]

(***************************************************************************)
(* C6.  Every spawner slot has at most one live entity whose spawner       *)
(* back-reference names it.                                                *)
(***************************************************************************)
C6_OneBombPerSlot ==
  \A s \in Spawners :
    Cardinality({e \in alive \cap DOMAIN respawn_points : respawn_points[e] = s}) <= 1

\* The slot has been hydrated again while the damage region of its previous
\* bomb is still alive.
C6_Witness ==
  /\ \E e \in alive \cap idle_bombs : e \in DOMAIN respawn_points /\ respawn_points[e] = 1
  /\ alive \cap DOMAIN damage_regions # {}

(***************************************************************************)
(* C7.  While the explosion of a bomb hydrated from a slot is queued, the  *)
(* slot is not hydrated; and the explosion leads to a state where the      *)
(* slot is hydrated again and a live Idle bomb back-references it.         *)
(***************************************************************************)
SlotExploding(s) ==
  \E e \in LiveLit :
    e \in DOMAIN respawn_points /\ respawn_points[e] = s /\ ExplodeQueued(e)

SlotRespawned(s) ==
  /\ s \in hydrated
  /\ \E e \in alive \cap idle_bombs \cap kick_bomb_handles :
       e \in DOMAIN respawn_points /\ respawn_points[e] = s /\ ~ExplodeQueued(e)

C7_ExplosionRespawns ==
  \A s \in Spawners :
    /\ [](SlotExploding(s) => s \notin hydrated)
    /\ SlotExploding(s) ~> SlotRespawned(s)

\* The bomb of slot 1 is exploding, by its fuse, in a player's hands.
C7_Witness ==
  /\ SlotExploding(1)
  /\ \E e \in LiveLit : Held(e) /\ ExplodeQueued(e) /\ respawn_points[e] = 1

(***************************************************************************)
(* C8.  An Idle bomb that carries a used marker when the idle update runs  *)
(* has its ignition queued, and when the stage's commands are applied it   *)
(* is Lit and not Idle, both timers at zero elapsed, kicking clear, kicks  *)
(* 0.  A live Lit bomb stays Lit and never becomes Idle, and its timers    *)
(* and kick counter never go back, used marker or not.                     *)
(***************************************************************************)
C8_Step ==
  /\ pc = "update_idle_kick_bombs" =>
       \A e \in alive \cap idle_bombs \cap kick_bomb_handles :
         e \in DOMAIN items_used => IgniteQueuedIn(commands', e)
  /\ pc = "apply_post_update" =>
       \A e \in alive :
         IgniteQueuedIn(commands, e) =>
           /\ e \in alive'
           /\ e \notin idle_bombs'
           /\ e \in DOMAIN lit_bombs'
           /\ lit_bombs'[e] =
                [arm_delay |-> [duration |-> meta.arm_delay, elapsed |-> 0],
                 fuse_time |-> [duration |-> meta.fuse_time, elapsed |-> 0],
                 kicking |-> FALSE, kicks |-> 0]
  /\ \A e \in LiveLit \cap alive' :
       /\ e \notin idle_bombs'
       /\ e \in DOMAIN lit_bombs'
       /\ lit_bombs'[e].fuse_time.elapsed >= lit_bombs[e].fuse_time.elapsed
       /\ lit_bombs'[e].arm_delay.elapsed >= lit_bombs[e].arm_delay.elapsed
       /\ lit_bombs'[e].kicks >= lit_bombs[e].kicks

C8_IgnitesOnce == [][C8_Step]_vars

\* A Lit bomb that has burnt for a while and been kicked carries a used
\* marker after the post-update commands have been applied.
C8_Witness ==
  /\ pc = "grab_items"
  /\ \E e \in LiveLit :
       /\ e \in DOMAIN items_used
       /\ lit_bombs[e].fuse_time.elapsed > 0
       /\ lit_bombs[e].kicks > 0

(***************************************************************************)
(* C9.  At the start of every tick every live item carries at most one of  *)
(* the markers grabbed, dropped and used.                                  *)
(***************************************************************************)
C9_OneMarkerAtTickStart ==
  pc = "hydrate" => \A e \in alive \cap items : Cardinality(Markers(e)) <= 1

(***************************************************************************)
(* C10.  A marker on a live kick bomb, Idle or Lit, does not outlive the   *)
(* tick in which its consuming system ran: no used marker is left when     *)
(* the post-update commands have been applied, no grabbed marker when      *)
(* grab_items has run, no dropped marker when throw_dropped_items has run. *)
(***************************************************************************)
C10_MarkersConsumedInTick ==
  \A e \in alive \cap kick_bomb_handles \cap (idle_bombs \cup DOMAIN lit_bombs) :
    /\ pc = "grab_items" => "used" \notin Markers(e)
    /\ pc = "drop_items" => "grabbed" \notin Markers(e)
    /\ pc = "apply_last" => "dropped" \notin Markers(e)

(***************************************************************************)
(* What the properties of the item protocol observe.                       *)
(***************************************************************************)
\* The items throw_dropped_items iterates.
Throwable == alive \cap items \cap DOMAIN item_throws \cap DOMAIN transforms

\* A command clearing the inventory of player p is queued.
DropQueuedIn(queue, p) ==
  \E k \in 1..Len(queue) :
    queue[k].type = "set_inventory" /\ queue[k].player = p /\ queue[k].item = <<>>

\* The name of the throw profile of a move direction (x, y).
ProfileOf(x, y) ==
  CASE y < 0 /\ x # 0 -> "roll"
    [] y < 0 /\ x = 0 -> "drop"
    [] y > 0 /\ x # 0 -> "lob"
    [] y = 0 /\ x # 0 -> "fast"
    [] y > 0 /\ x = 0 -> "up"
    [] y = 0 /\ x = 0 -> "normal"

\* The vector of the profile an item's ItemThrow gives to a move direction.
ProfileVector(it, x, y) ==
  LET name == ProfileOf(x, y)
  IN  CASE name = "roll" -> it.roll
        [] name = "drop" -> it.drop
        [] name = "lob" -> it.lob
        [] name = "fast" -> it.fast
        [] name = "up" -> it.up
        [] name = "normal" -> it.normal

(***************************************************************************)
(* C11.  When drop_items consumes the drop-requested marker of the item    *)
(* player P holds, the item is not thrown by throw_dropped_items in that   *)
(* tick; applying the stage's commands empties P's inventory and puts the  *)
(* dropped-by-P marker on the item; the marker stays on the live item      *)
(* until throw_dropped_items runs, in the next tick, and that run throws   *)
(* the item: afterwards P's inventory is empty, the marker and the         *)
(* attachment are gone and the body is active with the velocity of the     *)
(* profile P's move direction selects.  An item without the marker is not  *)
(* thrown, so each drop is thrown once.                                    *)
(***************************************************************************)
C11_Thrown(i, p) ==
  LET md == player_inputs[p].move_direction
      v == ProfileVector(item_throws[i], md[1], md[2])
  IN  /\ i \notin DOMAIN items_dropped'
      /\ i \notin DOMAIN attachments'
      /\ inventories'[p] = <<>>
      /\ bodies'[i].is_deactivated = FALSE
      /\ bodies'[i].velocity = <<IF atlas_sprites[p].flip_x THEN -v[1] ELSE v[1], v[2]>>

C11_Step ==
  /\ pc = "drop_items" =>
       \A p \in DOMAIN inventories, i \in alive \cap drop_items_req :
         inventories[p] = <<i>> =>
           (i \notin drop_items_req' /\ DropQueuedIn(commands', p))
  /\ pc = "throw_dropped_items" =>
       \A i \in Throwable :
         /\ i \notin DOMAIN items_dropped =>
              (bodies'[i] = bodies[i] /\ transforms'[i] = transforms[i]
                 /\ (i \in DOMAIN attachments <=> i \in DOMAIN attachments'))
         /\ i \in DOMAIN items_dropped => C11_Thrown(i, items_dropped[i])
  /\ pc = "apply_last" =>
       \A p \in DOMAIN inventories, i \in alive :
         (inventories[p] = <<i>> /\ DropQueuedIn(commands, p)) =>
           /\ inventories'[p] = <<>>
           /\ i \in DOMAIN items_dropped' /\ items_dropped'[i] = p
  /\ pc # "throw_dropped_items" =>
       \A i \in alive \cap alive' \cap DOMAIN items_dropped :
         i \in DOMAIN items_dropped' /\ items_dropped'[i] = items_dropped[i]

C12_ProfileClassification ==
  \A i \in DOMAIN item_throws, p \in DOMAIN player_inputs :
    LET control == player_inputs[p]
        md == control.move_direction
        it == item_throws[i]
    IN  /\ velocity_from_control(it, control) = ProfileVector(it, md[1], md[2])
        /\ Cardinality({it.roll, it.drop, it.lob, it.fast, it.up, it.normal}) = 6
        /\ \A jump \in BOOLEAN, ragdoll \in BOOLEAN :
             velocity_from_control(it, [control EXCEPT !.jump_just_pressed = jump,
                                                       !.ragdoll_just_pressed = ragdoll])
               = velocity_from_control(it, control)

\* An item dropped by a player who pushes the stick a tenth to the side,
\* while pressing jump, has been thrown with the fast profile.
C12_Witness ==
  /\ pc = "apply_last"
  /\ \E p \in DOMAIN player_inputs :
       /\ player_inputs[p].move_direction = <<1, 0>>
       /\ player_inputs[p].jump_just_pressed
       /\ ~atlas_sprites[p].flip_x
       /\ bodies[ThrownItem].velocity = item_throws[ThrownItem].fast
       /\ ~bodies[ThrownItem].is_deactivated

(***************************************************************************)
(* C13.  The velocity throw_dropped_items gives an item is the vector of   *)
(* the selected profile, its x negated exactly when the sprite of the      *)
(* player that dropped it is flipped, its y unchanged.  A player facing    *)
(* right with move direction (1, 1) throws with the base lob vector times  *)
(* the configured strength.                                                *)
(***************************************************************************)
C13_Throw(i) ==
  LET p == items_dropped[i]
      md == player_inputs[p].move_direction
      v == ProfileVector(item_throws[i], md[1], md[2])
      thrown == bodies'[i].velocity
  IN  /\ thrown[2] = v[2]
      /\ thrown[1] = (IF atlas_sprites[p].flip_x THEN -v[1] ELSE v[1])
      /\ (md = <<10, 10>> /\ ~atlas_sprites[p].flip_x) =>
           thrown = <<41 * ThrowVelocity, 102 * ThrowVelocity>>

C13_ThrowMirrorsOnlyX ==
  [][pc = "throw_dropped_items" =>
       \A i \in Throwable \cap DOMAIN items_dropped \cap DOMAIN bodies : C13_Throw(i)]_vars

\* A player facing left has thrown the item with the roll profile: x is
\* mirrored, y is not.
C13_Witness ==
  /\ pc = "apply_last"
  /\ \E p \in DOMAIN player_inputs :
       /\ player_inputs[p].move_direction = <<10, -10>>
       /\ atlas_sprites[p].flip_x
       /\ bodies[ThrownItem].velocity =
            <<-item_throws[ThrownItem].roll[1], item_throws[ThrownItem].roll[2]>>
       /\ item_throws[ThrownItem].roll[2] < 0

(***************************************************************************)
(* C14.  throw_dropped_items runs no throw system inline: it queues one    *)
(* command for each item it throws that carries a system and none for any  *)
(* other item; the system has run once more for each of these commands     *)
(* when the stage's commands have been applied; and no other step of the   *)
(* stage runs it.                                                          *)
(***************************************************************************)
SystemCommands(queue, sys) ==
  Cardinality({k \in 1..Len(queue) :
                 queue[k].type = "throw_system" /\ queue[k].system = sys})

ThrownWith(sys) ==
  {i \in Throwable \cap DOMAIN items_dropped : item_throws[i].system = <<sys>>}

C14_Step ==
  \A sys \in Systems :
    /\ pc # "apply_last" => system_runs'[sys] = system_runs[sys]
    /\ pc = "throw_dropped_items" =>
         SystemCommands(commands', sys)
           = SystemCommands(commands, sys) + Cardinality(ThrownWith(sys))
    /\ pc \in {"grab_items", "drop_items"} =>
         SystemCommands(commands', sys) = SystemCommands(commands, sys)
    /\ pc = "grab_items" => SystemCommands(commands, sys) = 0
    /\ pc = "apply_last" =>
         /\ system_runs'[sys] = system_runs[sys] + SystemCommands(commands, sys)
         /\ SystemCommands(commands', sys) = 0

C14_SystemRunsOncePerThrow == [][C14_Step]_vars

\* The system of a thrown item has run once, the tick is over.
C14_Witness ==
  /\ pc = "hydrate"
  /\ system_runs["effect"] = 1
  /\ item_throws[ThrownItem].system = <<"effect">>
  /\ ThrownItem \notin DOMAIN items_dropped
  /\ ~bodies[ThrownItem].is_deactivated

(***************************************************************************)
(* C16.  drop_items removes the drop-requested marker exactly from the     *)
(* items that some live player's inventory names, and appends to the queue *)
(* one command clearing the inventory of each such holder and nothing      *)
(* else; a marker on an item nobody holds stays and queues nothing; no     *)
(* inventory changes while the system runs.                                *)
(***************************************************************************)
HeldRequests ==
  {i \in drop_items_req :
     \E p \in alive \cap DOMAIN inventories : inventories[p] = <<i>>}

C16_Step ==
  LET added == SubSeq(commands', Len(commands) + 1, Len(commands'))
  IN  /\ drop_items_req' = drop_items_req \ HeldRequests
      /\ inventories' = inventories
      /\ Len(commands') >= Len(commands)
      /\ SubSeq(commands', 1, Len(commands)) = commands
      /\ Len(added) = Cardinality(HeldRequests)
      /\ \A i \in HeldRequests :
           \E k \in 1..Len(added) :
             /\ added[k].type = "set_inventory"
             /\ added[k].item = <<>>
             /\ inventories[added[k].player] = <<i>>

C16_DropItemsQueuesTheDrop == [][pc = "drop_items" => C16_Step]_vars

\* A drop request on an item nobody holds has been left in place.
C16_Witness ==
  /\ pc = "throw_dropped_items"
  /\ ThrownItem \in drop_items_req
  /\ commands = <<>>
  /\ \A p \in DOMAIN inventories : inventories[p] = <<>>

(***************************************************************************)
(* C15.  grab_items, for an item with Item and ItemGrab that carries a     *)
(* grabbed marker naming player P, removes the marker, deactivates the     *)
(* body and attaches the item to P at the configured offset; it changes no *)
(* component of an entity without the marker.  From then on, as long as    *)
(* the item lives, the attachment is kept and the body stays deactivated   *)
(* on every step except the one where throw_dropped_items throws it.       *)
(***************************************************************************)
SameAt(f, g, i) ==
  /\ i \in DOMAIN f <=> i \in DOMAIN g
  /\ i \in DOMAIN f => f[i] = g[i]

UntouchedByGrab(i) ==
  /\ SameAt(bodies, bodies', i)
  /\ SameAt(attachments, attachments', i)
  /\ SameAt(transforms, transforms', i)
  /\ SameAt(atlas_sprites, atlas_sprites', i)
  /\ SameAt(animated_sprites, animated_sprites', i)
  /\ SameAt(items_dropped, items_dropped', i)
  /\ SameAt(items_used, items_used', i)
  /\ SameAt(items_grabbed, items_grabbed', i)
  /\ SameAt(lit_bombs, lit_bombs', i)
  /\ i \in drop_items_req <=> i \in drop_items_req'
  /\ i \in idle_bombs <=> i \in idle_bombs'

Carried(i, atts, bods) ==
  /\ i \in DOMAIN atts
  /\ i \in DOMAIN bods => bods[i].is_deactivated

C15_Step ==
  /\ pc = "grab_items" =>
       /\ \A i \in alive \cap items \cap DOMAIN item_grabs \cap DOMAIN items_grabbed :
            /\ i \notin DOMAIN items_grabbed'
            /\ Carried(i, attachments', bodies')
            /\ attachments'[i].player = items_grabbed[i]
            /\ attachments'[i].offset = item_grabs[i].grab_offset
       /\ \A i \in (alive \cap items) \ DOMAIN items_grabbed : UntouchedByGrab(i)
  /\ \A i \in alive \cap alive' \cap items :
       (/\ Carried(i, attachments, bodies)
        /\ ~(pc = "throw_dropped_items" /\ i \in Throwable \cap DOMAIN items_dropped))
       => (Carried(i, attachments', bodies') /\ attachments'[i] = attachments[i])

C15_GrabAttachesUntilThrown == [][C15_Step]_vars

\* A bomb grabbed in an earlier tick and lit since is still attached to
\* its holder, its body deactivated.
C15_Witness ==
  /\ pc = "grab_items"
  /\ \E i \in alive \cap DOMAIN lit_bombs, p \in DOMAIN inventories :
       /\ inventories[p] = <<i>>
       /\ i \notin DOMAIN items_grabbed
       /\ i \in DOMAIN bodies /\ bodies[i].is_deactivated
       /\ i \in DOMAIN attachments
       /\ attachments[i].player = p
       /\ attachments[i].offset = item_grabs[i].grab_offset
       /\ lit_bombs[i].fuse_time.elapsed > 0

(***************************************************************************)
(* C17.  The walk transition system gives a player in the walk state the   *)
(* state of the first guard that holds, in the order: ragdoll just pressed *)
(* (ragdoll), not on the ground (mid-air), stick y below -0.5 (crouch),    *)
(* stick x zero (idle); with no guard true the player stays in walk.  It   *)
(* writes nothing else, and leaves a player in another state as it was.    *)
(***************************************************************************)
WalkTarget(control, body) ==
  CASE control.ragdoll_just_pressed -> "ragdoll"
    [] ~control.ragdoll_just_pressed /\ ~body.is_on_ground -> "midair"
    [] ~control.ragdoll_just_pressed /\ body.is_on_ground
         /\ 10 * control.move_direction[2] < -50 -> "crouch"
    [] ~control.ragdoll_just_pressed /\ body.is_on_ground
         /\ 10 * control.move_direction[2] >= -50
         /\ control.move_direction[1] = 0 -> "idle"
    [] OTHER -> "walk"

C17_Step ==
  pc = "walk_transition" =>
    /\ \A p \in WalkTransitionPlayers(World) :
         /\ player_states[p].current = "walk" =>
              player_states'[p].current = WalkTarget(player_inputs[p], bodies[p])
         /\ player_states[p].current # "walk" =>
              player_states'[p] = player_states[p]
         /\ player_states'[p].age = player_states[p].age
    /\ UNCHANGED <<bodies, atlas_sprites, animations, player_inputs, audio_center,
                   commands, alive>>

C17_FirstGuardWins == [][C17_Step]_vars

\* A walking player in the air, pulling the stick down with no sideways
\* input, has gone to mid-air: the earlier guard won over crouch and idle.
C17_Witness ==
  /\ pc = "walk_update"
  /\ \E p \in DOMAIN player_states :
       /\ player_states[p].current = "midair"
       /\ ~bodies[p].is_on_ground
       /\ ~player_inputs[p].ragdoll_just_pressed
       /\ player_inputs[p].move_direction = <<0, -6>>

(***************************************************************************)
(* C18.  The walk update changes a player exactly when the player's state  *)
(* is walk once the transitions of the tick are resolved: such a player    *)
(* gets the walk animation on its first frame in the state, the jump       *)
(* speed when jump is just pressed, the accelerated and clamped horizontal *)
(* velocity and the facing of the stick; any other player, one that left   *)
(* walk in this tick included, keeps its body, sprite and animation.       *)
(***************************************************************************)
C18_Walked(p) ==
  LET control == player_inputs[p]
      x == control.move_direction[1]
      target == WalkSpeed * x
      pushed == bodies[p].velocity[1] + AccelWalkSpeed * x
  IN  /\ animations'[p] = (IF player_states[p].age = 0 THEN "walk" ELSE animations[p])
      /\ bodies'[p].velocity[2] =
           (IF control.jump_just_pressed THEN JumpSpeed ELSE bodies[p].velocity[2])
      /\ x > 0 => bodies'[p].velocity[1] = (IF pushed > target THEN target ELSE pushed)
      /\ x < 0 => bodies'[p].velocity[1] = (IF pushed < target THEN target ELSE pushed)
      /\ x > 0 => ~atlas_sprites'[p].flip_x
      /\ x < 0 => atlas_sprites'[p].flip_x
      /\ x = 0 => atlas_sprites'[p].flip_x = atlas_sprites[p].flip_x

C18_Step ==
  pc = "walk_update" =>
    /\ \A p \in WalkUpdatePlayers(World) :
         /\ player_states[p].current = "walk" => C18_Walked(p)
         /\ player_states[p].current # "walk" =>
              /\ bodies'[p] = bodies[p]
              /\ atlas_sprites'[p] = atlas_sprites[p]
              /\ animations'[p] = animations[p]
    /\ player_states' = player_states

C18_WalkUpdateOnlyInWalk == [][C18_Step]_vars

\* A player that left walk for crouch in this tick, with jump pressed and
\* the stick to the right, is untouched by the update (facing left, no
\* jump), while the second player, still walking, was accelerated.
C18_Witness ==
  /\ pc = "walk_done"
  /\ \E p \in DOMAIN player_states, q \in DOMAIN player_states :
       /\ player_states[p].current = "crouch"
       /\ player_inputs[p].jump_just_pressed
       /\ player_inputs[p].move_direction = <<10, -6>>
       /\ atlas_sprites[p].flip_x
       /\ bodies[p].velocity = <<45, 0>>
       /\ animations[p] = "walk"
       /\ player_states[q].current = "walk"
       /\ bodies[q].velocity = <<AccelWalkSpeed * 10, 0>>

(***************************************************************************)
(* C19.  A stage starts with an empty queue.  While the systems of a stage *)
(* run, the commands already queued stay queued in their order and have    *)
(* no effect: no inventory changes, no live entity is killed, no Idle bomb *)
(* becomes Lit.  The flush that follows the stage applies them all and     *)
(* leads to the first system of the next stage.  A bomb ignited in         *)
(* PostUpdate is Lit after that flush with its timers at zero, and the     *)
(* timers of a Lit bomb move in no step but the lit update, which next     *)
(* runs in the following tick.                                             *)
(***************************************************************************)
StageStarts == {"hydrate", "update", "update_lit_kick_bombs", "grab_items"}

C19_Step ==
  /\ pc \in StageStarts => commands = <<>>
  /\ pc \notin ApplyPoints =>
       /\ Len(commands') >= Len(commands)
       /\ SubSeq(commands', 1, Len(commands)) = commands
       /\ inventories' = inventories
       /\ alive \subseteq alive'
       /\ \A e \in alive \cap idle_bombs :
            e \in idle_bombs' /\ e \notin DOMAIN lit_bombs'
  /\ pc \in ApplyPoints =>
       /\ commands' = <<>>
       /\ pc' \in StageStarts
       /\ \A e \in alive \cap idle_bombs :
            IgniteQueuedIn(commands, e) =>
              /\ pc = "apply_post_update"
              /\ e \notin idle_bombs'
              /\ e \in DOMAIN lit_bombs'
              /\ lit_bombs'[e].fuse_time.elapsed = 0
              /\ lit_bombs'[e].arm_delay.elapsed = 0
              /\ lit_age'[e] = 0
  /\ pc # "update_lit_kick_bombs" =>
       \A e \in alive \cap alive' \cap DOMAIN lit_bombs :
         /\ e \in DOMAIN lit_bombs'
         /\ lit_bombs'[e].fuse_time = lit_bombs[e].fuse_time
         /\ lit_bombs'[e].arm_delay = lit_bombs[e].arm_delay

C19_CommandsApplyBetweenStages == [][C19_Step]_vars

\* The lit update of the tick after the ignition is about to run: the
\* bomb is Lit and its timers have not moved yet.
C19_Witness ==
  /\ pc = "update_lit_kick_bombs"
  /\ \E e \in alive \cap DOMAIN lit_bombs :
       /\ e \notin idle_bombs
       /\ lit_age[e] = 0
       /\ lit_bombs[e].fuse_time.elapsed = 0
       /\ lit_bombs[e].arm_delay.elapsed = 0

(***************************************************************************)
(* C20, as stated.  While the systems of kick_bomb.rs and item.rs run, no  *)
(* entity is created or destroyed and no component is inserted into or     *)
(* removed from any store; all of that is left to the queued commands.     *)
(***************************************************************************)
SystemPoints ==
  {"hydrate", "update_lit_kick_bombs", "update_idle_kick_bombs",
   "grab_items", "drop_items", "throw_dropped_items"}

SameEntities(f, g) == DOMAIN f = DOMAIN g

BombComponentsKept ==
  /\ kick_bomb_handles' = kick_bomb_handles
  /\ items' = items
  /\ idle_bombs' = idle_bombs
  /\ SameEntities(item_throws, item_throws')
  /\ SameEntities(item_grabs, item_grabs')
  /\ SameEntities(atlas_sprites, atlas_sprites')
  /\ SameEntities(animated_sprites, animated_sprites')
  /\ SameEntities(transforms, transforms')
  /\ SameEntities(bodies, bodies')
  /\ SameEntities(lit_bombs, lit_bombs')
  /\ SameEntities(damage_regions, damage_regions')
  /\ SameEntities(lifetimes, lifetimes')

HydrationKept ==
  /\ hydrated' = hydrated
  /\ SameEntities(element_handles, element_handles')
  /\ SameEntities(respawn_points, respawn_points')

UsedKept == SameEntities(items_used, items_used')
GrabbedKept == SameEntities(items_grabbed, items_grabbed')
DroppedKept == SameEntities(items_dropped, items_dropped')
DropRequestsKept == drop_items_req' = drop_items_req
AttachmentsKept == SameEntities(attachments, attachments')

C20_NothingStructural ==
  /\ alive' = alive
  /\ BombComponentsKept /\ HydrationKept
  /\ UsedKept /\ GrabbedKept /\ DroppedKept /\ DropRequestsKept
  /\ AttachmentsKept

UnhydratedBombSpawners ==
  {sp \in alive \cap DOMAIN element_handles :
     sp \notin hydrated /\ element_handles[sp] = "kick_bomb"}

C20_Step ==
  /\ pc \notin ApplyPoints => (alive \subseteq alive' /\ killed' = killed)
  /\ pc \in SystemPoints => BombComponentsKept
  /\ pc \in SystemPoints \ {"hydrate"} => alive' = alive
  /\ pc = "hydrate" =>
       /\ Cardinality(alive' \ alive) = Cardinality(UnhydratedBombSpawners)
       /\ hydrated' = hydrated \cup UnhydratedBombSpawners \cup (alive' \ alive)
       /\ DOMAIN element_handles' = DOMAIN element_handles \cup (alive' \ alive)
       /\ DOMAIN respawn_points' = DOMAIN respawn_points \cup (alive' \ alive)
       /\ UsedKept /\ GrabbedKept /\ DroppedKept /\ DropRequestsKept /\ AttachmentsKept
  /\ pc = "update_lit_kick_bombs" =>
       /\ hydrated' \subseteq hydrated
       /\ SameEntities(element_handles, element_handles')
       /\ SameEntities(respawn_points, respawn_points')
       /\ UsedKept /\ GrabbedKept /\ DroppedKept /\ DropRequestsKept /\ AttachmentsKept
  /\ pc = "update_idle_kick_bombs" =>
       /\ DOMAIN items_used' \subseteq DOMAIN items_used
       /\ HydrationKept
       /\ GrabbedKept /\ DroppedKept /\ DropRequestsKept /\ AttachmentsKept
  /\ pc = "grab_items" =>
       /\ DOMAIN items_grabbed' \subseteq DOMAIN items_grabbed
       /\ DOMAIN attachments \subseteq DOMAIN attachments'
       /\ HydrationKept
       /\ UsedKept /\ DroppedKept /\ DropRequestsKept
  /\ pc = "drop_items" =>
       /\ drop_items_req' \subseteq drop_items_req
       /\ HydrationKept
       /\ UsedKept /\ GrabbedKept /\ DroppedKept /\ AttachmentsKept
  /\ pc = "throw_dropped_items" =>
       /\ DOMAIN items_dropped' \subseteq DOMAIN items_dropped
       /\ DOMAIN attachments' \subseteq DOMAIN attachments
       /\ HydrationKept
       /\ UsedKept /\ GrabbedKept /\ DropRequestsKept

SpawnQueued(handles) ==
  /\ pc = "apply_pre_update"
  /\ Len(commands) = 1
  /\ commands[1].type = "spawn_kick_bomb"
  /\ commands[1].kick_bomb_meta_handle \in handles

StoreKept ==
  /\ alive' = alive /\ killed' = killed
  /\ C20_NothingStructural
  /\ UNCHANGED <<kick_bomb_handles, items, item_throws, item_grabs, atlas_sprites,
                 animated_sprites, transforms, bodies, idle_bombs, lit_bombs,
                 element_handles, respawn_points, spawner_manager, hydrated>>

C21_BadHandleSkipsSpawn ==
  [][SpawnQueued(SpawnHandles \ {"kick_bomb"}) => (StoreKept /\ ~fault')]_vars

\* The part of C21 about a command that names an entity.
C21_BadHandleSkipsSpawnOnEntity ==
  [][(SpawnQueued(SpawnHandles \ {"kick_bomb"}) /\ IsSome(commands[1].entity))
       => (StoreKept /\ ~fault')]_vars

\* A command with another element's handle and no entity has been applied:
\* an entity without any component is alive.
C21_Leaked ==
  /\ pc = "update"
  /\ ~fault
  /\ \E e \in alive \ (Spawners \cup Players) :
       /\ e \notin items /\ e \notin kick_bomb_handles /\ e \notin hydrated
       /\ e \notin DOMAIN transforms /\ e \notin DOMAIN bodies
       /\ e \notin DOMAIN element_handles

(***************************************************************************)
(* C22.  Installing the audio plugin raises a fatal fault exactly when the *)
(* game has no audio session.  When it has one, the music system is added  *)
(* at the end of that session's First stage, every other session is left   *)
(* as it was, and the installation ends without a fault.                   *)
(***************************************************************************)
C22_Step ==
  pc = "install_audio" =>
    /\ fault' <=> "audio" \notin DOMAIN sessions
    /\ "AudioCenter" \in shared_resources'
    /\ DOMAIN sessions' = DOMAIN sessions
    /\ \A n \in DOMAIN sessions :
         sessions'[n] = (IF n = "audio" THEN Append(sessions[n], "music_system")
                         ELSE sessions[n])

C22_AudioPluginNeedsSession == [][C22_Step]_vars

\* The plugin has been installed into an audio session that had two
\* systems in its First stage: the music system follows them.
C22_Witness ==
  /\ pc = "installed"
  /\ ~fault
  /\ "audio" \in DOMAIN sessions
  /\ sessions["audio"] = <<"process_audio_events", "kill_finished_audios", "music_system">>
  /\ "core" \in DOMAIN sessions

\* The plugin has been installed into a game without an audio session:
\* startup is aborted.
C22_Aborted ==
  /\ pc = "installed"
  /\ fault
  /\ "audio" \notin DOMAIN sessions

(***************************************************************************)
(* C23.  The outcome of the lit update for a bomb (explosion queued or     *)
(* not, velocity, kick counter, kicking flag) is the same for every order  *)
(* in which the collision query can return the actors that overlap it.     *)
(***************************************************************************)
Range(seq) == {seq[k] : k \in 1..Len(seq)}

\* The orders the query can return the same actors in.
QueryOrders(seq) ==
  {order \in [1..Len(seq) -> Range(seq)] : Range(order) = Range(seq)}

LitOutcomeIs(w) ==
  /\ lit_bombs' = w.lit_bombs
  /\ bodies' = w.bodies
  /\ commands' = w.commands
  /\ hydrated' = w.hydrated

C23_Step ==
  pc = "update_lit_kick_bombs" =>
    \A b \in DOMAIN collision_world :
      \A order \in QueryOrders(collision_world[b]) :
        LitOutcomeIs(update_lit_kick_bombs([World EXCEPT !.collision_world[b] = order]))

C23_QueryOrderIrrelevant == [][C23_Step]_vars

\* The part of C23 about ticks on which at most one player that is not
\* invincible overlaps the bomb.
C23_OneKicker ==
  [][(\A b \in DOMAIN collision_world :
        Cardinality((Range(collision_world[b]) \cap DOMAIN player_indexes)
                      \ invincibles) <= 1)
       => C23_Step]_vars

(***************************************************************************)
(* C24.  A Lit bomb configured to explode on contact, whose fuse has not   *)
(* finished, explodes in the lit update if and only if a player that is    *)
(* not invincible overlaps it and its arm delay has completed; when it     *)
(* does not explode, the update leaves its kick counter, its kicking flag  *)
(* and its velocity as they were.                                          *)
(***************************************************************************)
\* The players that count as contact with bomb b.
ContactPlayers(b) ==
  {e \in Range(actor_collisions(World, b)) :
     e \in alive \cap DOMAIN player_indexes /\ e \notin invincibles}

\* The lit update has ticked b's timers and its fuse has not finished.
FuseRunning(b) ==
  /\ b \in DOMAIN lit_bombs
  /\ b \in DOMAIN lit_bombs'
  /\ ~TimerFinished(lit_bombs'[b].fuse_time)

KickStateKept(b) ==
  /\ lit_bombs'[b].kicks = lit_bombs[b].kicks
  /\ lit_bombs'[b].kicking = lit_bombs[b].kicking
  /\ bodies'[b].velocity = bodies[b].velocity

C24_Step ==
  pc = "update_lit_kick_bombs" /\ meta.explode_on_contact =>
    \A b \in DOMAIN lit_bombs :
      FuseRunning(b) =>
        /\ ExplodeQueuedIn(commands', b)
             <=> (ContactPlayers(b) # {} /\ TimerFinished(lit_bombs'[b].arm_delay))
        /\ ~ExplodeQueuedIn(commands', b) => KickStateKept(b)

C24_ContactRuleAlone == [][C24_Step]_vars

\* The part of C24 that the contact test itself decides: contact with the
\* arm delay completed explodes the bomb.
C24_ArmedContactExplodes ==
  [][pc = "update_lit_kick_bombs" /\ meta.explode_on_contact =>
       \A b \in DOMAIN lit_bombs :
         FuseRunning(b) /\ ContactPlayers(b) # {}
           /\ TimerFinished(lit_bombs'[b].arm_delay)
           => ExplodeQueuedIn(commands', b)]_vars

(***************************************************************************)
(* C25.  Overlap with invincible players is no contact: when every player  *)
(* that overlaps a Lit bomb is invincible, the lit update has the outcome  *)
(* it has when nothing overlaps the bomb (no contact explosion, no kick    *)
(* counted, no deflection, the kicking flag cleared by the kick branch).   *)
(***************************************************************************)
OnlyInvincibleOverlap(b) ==
  /\ actor_collisions(World, b) # <<>>
  /\ Range(actor_collisions(World, b)) \cap DOMAIN player_indexes \subseteq invincibles

C25_Step ==
  pc = "update_lit_kick_bombs" =>
    \A b \in DOMAIN collision_world :
      OnlyInvincibleOverlap(b) =>
        LitOutcomeIs(update_lit_kick_bombs([World EXCEPT !.collision_world[b] = <<>>]))

C25_InvincibleOverlapIsNoContact == [][C25_Step]_vars

\* After the lit update: an armed bomb that explodes on contact and can be
\* kicked, free, overlapped by two invincible players, was neither exploded
\* nor kicked, and its kicking flag is clear.
C25_Witness ==
  /\ pc = "update_idle_kick_bombs"
  /\ meta.explode_on_contact /\ meta.kickable
  /\ \E b \in DOMAIN lit_bombs :
       /\ OnlyInvincibleOverlap(b)
       /\ Len(actor_collisions(World, b)) = 2
       /\ ~IsSome(find_item(World, b))
       /\ TimerFinished(lit_bombs[b].arm_delay)
       /\ lit_bombs[b].kicks = 3
       /\ ~lit_bombs[b].kicking
       /\ bodies[b].velocity = <<94, 74>>
       /\ ~ExplodeQueuedIn(commands, b)

(***************************************************************************)
(* C26.  A kick contact that leaves the kick counter at 3 or less gives:   *)
(* for a bomb at rest horizontally, the kick vector, its x negated when    *)
(* the player is flipped; otherwise, for a player at or left of the bomb   *)
(* and not flipped, (kick x, kick y); otherwise, for a player right of the *)
(* bomb and flipped, (-kick x, kick y); otherwise an explosion when the    *)
(* arm delay has completed, and the velocity unchanged when it has not.    *)
(***************************************************************************)
\* The players whose overlap the kick branch of bomb b sees, in query order.
Kickers(b) ==
  SelectSeq(actor_collisions(World, b),
            LAMBDA x : x \notin invincibles /\ x \in DOMAIN player_indexes)

\* The lit update of b reaches a kick contact.
KickContact(b) ==
  /\ FuseRunning(b)
  /\ ~(/\ meta.explode_on_contact
       /\ ContactPlayers(b) # {}
       /\ TimerFinished(lit_bombs'[b].arm_delay))
  /\ ~IsSome(find_item(World, b))
  /\ meta.kickable
  /\ Kickers(b) # <<>>

C26_Deflection(b) ==
  LET player == Head(Kickers(b))
      stationary == bodies[b].velocity[1] = 0
      standing_left == transforms[player].x <= transforms[b].x
      flipped == atlas_sprites[player].flip_x
      armed == TimerFinished(lit_bombs'[b].arm_delay)
      exploded == ExplodeQueuedIn(commands', b)
  IN  IF stationary
      THEN /\ ~exploded
           /\ bodies'[b].velocity =
                <<IF flipped THEN -(KickVelocity[1]) ELSE KickVelocity[1], KickVelocity[2]>>
      ELSE IF standing_left /\ ~flipped
      THEN ~exploded /\ bodies'[b].velocity = KickVelocity
      ELSE IF ~standing_left /\ flipped
      THEN ~exploded /\ bodies'[b].velocity = <<-(KickVelocity[1]), KickVelocity[2]>>
      ELSE /\ exploded <=> armed
           /\ bodies'[b].velocity = bodies[b].velocity

C26_Step ==
  pc = "update_lit_kick_bombs" =>
    \A b \in DOMAIN lit_bombs :
      KickContact(b) /\ lit_bombs'[b].kicks <= 3 => C26_Deflection(b)

C26_KickDeflection == [][C26_Step]_vars

\* After the lit update: an armed, moving bomb was kicked from the wrong
\* side a third time and its explosion is queued, its velocity as it was.
C26_Witness ==
  /\ pc = "update_idle_kick_bombs"
  /\ meta.kickable /\ ~meta.explode_on_contact
  /\ \E b \in DOMAIN lit_bombs :
       /\ ~TimerFinished(lit_bombs[b].fuse_time)
       /\ TimerFinished(lit_bombs[b].arm_delay)
       /\ ~IsSome(find_item(World, b))
       /\ Kickers(b) # <<>>
       /\ transforms[Head(Kickers(b))].x > transforms[b].x
       /\ ~atlas_sprites[Head(Kickers(b))].flip_x
       /\ lit_bombs[b].kicks = 3
       /\ lit_bombs[b].kicking
       /\ bodies[b].velocity = <<94, 74>>
       /\ ExplodeQueuedIn(commands, b)

\* After the lit update: a resting bomb was kicked to the left by a flipped
\* player standing left of it.
C26_KickedLeft ==
  /\ pc = "update_idle_kick_bombs"
  /\ \E b \in DOMAIN lit_bombs :
       /\ Kickers(b) # <<>>
       /\ transforms[Head(Kickers(b))].x < transforms[b].x
       /\ atlas_sprites[Head(Kickers(b))].flip_x
       /\ lit_bombs[b].kicks = 1
       /\ bodies[b].velocity = <<-(KickVelocity[1]), KickVelocity[2]>>
       /\ ~ExplodeQueuedIn(commands, b)

(***************************************************************************)
(* C27.  The walk update gives the jump impulse on the press edge only: a  *)
(* walking player whose jump control is just pressed gets the jump speed   *)
(* as vertical velocity and one jump sound is played; a walking player     *)
(* whose jump control is not just pressed, held down or not, keeps its     *)
(* vertical velocity and no jump sound is played for it.                   *)
(***************************************************************************)
Walking == {p \in DOMAIN player_states : player_states[p].current = "walk"}

JumpSounds(n) == [k \in 1..n |-> "jump"]

C27_Step ==
  pc = "walk_update" =>
    /\ \A p \in Walking :
         bodies'[p].velocity[2] =
           (IF player_inputs[p].jump_just_pressed
            THEN JumpSpeed ELSE bodies[p].velocity[2])
    /\ audio_center' =
         audio_center
           \o JumpSounds(Cardinality({p \in Walking : player_inputs[p].jump_just_pressed}))

C27_JumpOncePerPressEdge == [][C27_Step]_vars

\* After the walk update: a walking player who pressed jump this tick while
\* falling has the jump speed and there is one jump sound.
C27_Witness ==
  /\ pc = "walk_done"
  /\ audio_center = <<"jump">>
  /\ \E p \in Walking :
       /\ player_inputs[p].jump_just_pressed
       /\ player_inputs[p].jump_pressed
       /\ bodies[p].velocity[2] = JumpSpeed

\* After the walk update: a walking player who only holds the jump button
\* keeps falling and there is no jump sound.
C27_HeldWitness ==
  /\ pc = "walk_done"
  /\ audio_center = <<>>
  /\ \E p \in Walking :
       /\ ~player_inputs[p].jump_just_pressed
       /\ player_inputs[p].jump_pressed
       /\ bodies[p].velocity[2] = -3

(***************************************************************************)
(* C28.  After the walk update of a walking player the horizontal velocity *)
(* is clamped in the direction of travel, whatever it was before: at most  *)
(* walk_speed * x for a stick x > 0, at least walk_speed * x for x < 0;    *)
(* the sprite is flipped for x < 0 and unflipped for x > 0.                *)
(***************************************************************************)
C28_Step ==
  pc = "walk_update" =>
    \A p \in Walking :
      LET x == player_inputs[p].move_direction[1]
      IN  /\ x > 0 => /\ bodies'[p].velocity[1] <= WalkSpeed * x
                      /\ ~atlas_sprites'[p].flip_x
          /\ x < 0 => /\ bodies'[p].velocity[1] >= WalkSpeed * x
                      /\ atlas_sprites'[p].flip_x

C28_WalkVelocityClamped == [][C28_Step]_vars

\* After the walk update: a walking player with the stick half to the right
\* moves at exactly half the walk speed and faces right.
C28_Witness ==
  /\ pc = "walk_done"
  /\ \E p \in Walking :
       /\ player_inputs[p].move_direction[1] = 5
       /\ bodies[p].velocity[1] = WalkSpeed * 5
       /\ ~atlas_sprites[p].flip_x

\* After the walk update: a walking player with the stick to the left is
\* held at the walk speed to the left and faces left.
C28_LeftWitness ==
  /\ pc = "walk_done"
  /\ \E p \in Walking :
       /\ player_inputs[p].move_direction[1] = -10
       /\ bodies[p].velocity[1] = -(WalkSpeed * 10)
       /\ atlas_sprites[p].flip_x

(***************************************************************************)
(* C29.  Every tick advances time by a positive amount, and every Lit bomb *)
(* is eventually destroyed, by its queued explosion and by nothing else:   *)
(* no contacts, kicks, grabs and drops keep it Lit for ever.               *)
(***************************************************************************)
\* A Lit bomb leaves the store only by its queued explosion.
C29_DestroyedByExplosion ==
  \A e \in LiveLit : e \notin alive' => ExplodeQueued(e)

C29_EveryLitBombExplodes ==
  /\ [](delta > 0)
  /\ [][C29_DestroyedByExplosion]_vars
  /\ \A e \in Pool : (e \in LiveLit) ~> (e \notin alive)

\* A Lit bomb that has been kicked is in a player's hands, its fuse running.
C29_Witness ==
  \E e \in LiveLit :
    /\ Held(e)
    /\ lit_bombs[e].kicks >= 1
    /\ lit_bombs[e].fuse_time.elapsed > 0
    /\ ~TimerFinished(lit_bombs[e].fuse_time)
    /\ ~ExplodeQueued(e)

(***************************************************************************)
(* C30.  The debug render systems do not influence the simulation: with    *)
(* any debug settings, a debug system leaves everything but the Path2d     *)
(* components (entities, transforms, bodies, markers, the collision world  *)
(* and its collider bodies) as the same system leaves it with every debug  *)
(* flag off.                                                               *)
(***************************************************************************)
\* The store without the debug paths.
Simulation(w) == [w EXCEPT !.paths = Empty]

C30_Step ==
  pc \in DebugPoints =>
    Simulation(World)' = Simulation(debug_system(pc, World, DebugSettingsDefault))

C30_DebugFlagsDoNotInfluence == [][C30_Step]_vars

\* The part of C30 outside the collider bodies of the collision world.
C30_OutsideColliderBodies ==
  [][(pc \in DebugPoints) =>
       [Simulation(World) EXCEPT !.rigid_body_set = Empty]'
         = [Simulation(debug_system(pc, World, DebugSettingsDefault))
              EXCEPT !.rigid_body_set = Empty]]_vars

\* After the collider rendering with the collider flag on: the collider body
\* of a held item has been moved to the item and disabled.
C30_Synced ==
  /\ pc = "debug_render_damage_regions"
  /\ debug_settings.show_kinematic_colliders
  /\ \E e \in DOMAIN rigid_body_set :
       /\ bodies[e].is_deactivated
       /\ ~rigid_body_set[e].enabled
       /\ rigid_body_set[e].position = <<2, 1>>
       /\ IsSome(debug_context)
       /\ paths[Unwrap(debug_context)].lines = {}

(***************************************************************************)
(* C31.  A bomb explodes at most once.  The queue never holds two          *)
(* explosions of one bomb, and only explosions of live Lit bombs; an       *)
(* explosion is queued only by the lit update, for a live Lit bomb with no *)
(* explosion queued, and un-hydrates the bomb's slot; the flush that       *)
(* applies it destroys the bomb and creates one damage region and one      *)
(* visual for it, and nothing else un-hydrates a slot.  An entity created  *)
(* later under the index of a destroyed bomb is another entity.            *)
(***************************************************************************)
ExplosionsIn(queue, e) ==
  Cardinality({k \in 1..Len(queue) : queue[k].type = "explode" /\ queue[k].entity = e})

AllExplosionsIn(queue) ==
  Cardinality({k \in 1..Len(queue) : queue[k].type = "explode"})

C31_Queued ==
  \A e \in Pool :
    /\ ExplosionsIn(commands, e) <= 1
    /\ ExplosionsIn(commands, e) = 1 => e \in LiveLit

C31_Step ==
  /\ \A e \in Pool :
       /\ ExplosionsIn(commands', e) > ExplosionsIn(commands, e) =>
            /\ pc = "update_lit_kick_bombs"
            /\ e \in LiveLit
            /\ ExplosionsIn(commands, e) = 0
            /\ ExplosionsIn(commands', e) = 1
            /\ e \in DOMAIN respawn_points => respawn_points[e] \notin hydrated'
       /\ ExplosionsIn(commands', e) < ExplosionsIn(commands, e) =>
            /\ e \notin alive'
            /\ e \in killed'
  /\ AllExplosionsIn(commands') < AllExplosionsIn(commands) =>
       /\ AllExplosionsIn(commands') = 0
       /\ Cardinality((alive' \ alive) \cap DOMAIN damage_regions')
            = AllExplosionsIn(commands)
       /\ Cardinality((alive' \ alive) \cap DOMAIN animated_sprites'
                        \cap DOMAIN lifetimes')
            = AllExplosionsIn(commands)
  /\ \A s \in hydrated \cap Spawners :
       s \notin hydrated' =>
         \E e \in LiveLit :
           /\ e \in DOMAIN respawn_points /\ respawn_points[e] = s
           /\ ExplosionsIn(commands, e) = 0
           /\ ExplosionsIn(commands', e) = 1

C31_ExplodesAtMostOnce == []C31_Queued /\ [][C31_Step]_vars

\* After the flush of the PostUpdate stage: a bomb of slot 1 has been
\* destroyed in this tick, one damage region and one visual stand for it,
\* the slot waits for its next bomb and no explosion is queued.
C31_Witness ==
  /\ pc = "grab_items"
  /\ killed \cap Pool # {}
  /\ 1 \notin hydrated
  /\ LiveLit = {}
  /\ AllExplosionsIn(commands) = 0
  /\ Cardinality({r \in alive \cap DOMAIN damage_regions : lifetimes[r].age = 0}) = 1
  /\ Cardinality({v \in alive \cap DOMAIN animated_sprites \cap DOMAIN lifetimes :
                    lifetimes[v].age = 0 /\ ~animated_sprites[v].repeat}) = 1

(***************************************************************************)
(* C32.  Between the stages and the command flushes of a tick, every live  *)
(* kick bomb carries exactly one of IdleKickBomb and LitKickBomb: never    *)
(* both and never neither, through hydration, spawn, ignition and the      *)
(* flushes.                                                                *)
(***************************************************************************)
OneBombState(e) == (e \in idle_bombs) # (e \in DOMAIN lit_bombs)

C32_SpawnGivesOneState ==
  [][(pc = "apply_pre_update" /\ kick_bomb_handles = {}) =>
       \A e \in alive' \cap kick_bomb_handles' :
         (e \in idle_bombs') # (e \in DOMAIN lit_bombs')]_vars

\* A lit spawn has made a Lit bomb out of a created entity.
C32_LitSpawned ==
  /\ pc = "update"
  /\ ~fault
  /\ \E e \in alive \cap kick_bomb_handles : e \in DOMAIN lit_bombs /\ e \notin idle_bombs

(***************************************************************************)
(* C33.  A player in the walk state whose horizontal input is zero leaves  *)
(* walk in the transition system of that tick, by one of the four guards;  *)
(* so when the walk update runs no walking player has a zero horizontal    *)
(* input, and the update leaves every player with a zero horizontal input  *)
(* as it is and plays no sound for it.                                     *)
(***************************************************************************)
ZeroStick(p) == player_inputs[p].move_direction[1] = 0

C33_Step ==
  /\ pc = "walk_transition" =>
       \A p \in WalkTransitionPlayers(World) :
         player_states[p].current = "walk" /\ ZeroStick(p) =>
           player_states'[p].current \in {"ragdoll", "midair", "crouch", "idle"}
  /\ pc = "walk_update" =>
       /\ \A p \in WalkUpdatePlayers(World) :
            ZeroStick(p) =>
              /\ player_states[p].current # "walk"
              /\ bodies'[p] = bodies[p]
              /\ atlas_sprites'[p] = atlas_sprites[p]
              /\ animations'[p] = animations[p]
       /\ (\A p \in WalkUpdatePlayers(World) : ZeroStick(p)) =>
            audio_center' = audio_center

C33_ZeroStickLeavesWalk == [][C33_Step]_vars

\* After the update: a player who was walking on the ground with the stick
\* at rest and jump pressed is idle, still shows the walk animation, was not
\* lifted and no jump sound was played.
C33_Witness ==
  /\ pc = "walk_done"
  /\ audio_center = <<>>
  /\ \E p \in DOMAIN player_states :
       /\ ZeroStick(p)
       /\ player_states[p].current = "idle"
       /\ animations[p] = "walk"
       /\ bodies[p].is_on_ground
       /\ player_inputs[p].jump_just_pressed
       /\ bodies[p].velocity = <<45, -3>>

(***************************************************************************)
(* C34.  throw_dropped_items completes without a fault for every dropped   *)
(* item: whatever entity the dropped marker names and whatever spawner the *)
(* item has, the system ends with the marker consumed and no fault.        *)
(***************************************************************************)
C34_Step ==
  pc = "throw_dropped_items" =>
    /\ ~fault'
    /\ \A e \in alive \cap items \cap DOMAIN item_throws \cap DOMAIN transforms :
         e \notin DOMAIN items_dropped'

C34_ThrowNeverFaults == [][C34_Step]_vars

\* The lookups of the throw of item e all find what they look for.
ThrowLookupsHit(e) ==
  /\ items_dropped[e] \in DOMAIN atlas_sprites
  /\ items_dropped[e] \in DOMAIN player_indexes
  /\ e \in DOMAIN respawn_points => respawn_points[e] \in DOMAIN map_layers
  /\ e \notin DOMAIN respawn_points => player_spawner_layers # {}

\* The part of C34 that holds: the system ends in a fault exactly when a
\* lookup of a dropped item misses.
C34_FaultsOnlyOnMiss ==
  [][pc = "throw_dropped_items" =>
       (fault' <=>
          \E e \in (alive \cap items \cap DOMAIN item_throws \cap DOMAIN transforms)
                     \cap DOMAIN items_dropped : ~ThrowLookupsHit(e))]_vars

\* The throw of an item dropped by an entity without a sprite has ended in a
\* fault, after the marker and the attachment were removed.
C34_Faulted ==
  /\ pc = "apply_last"
  /\ fault
  /\ items_dropped = Empty
  /\ attachments = Empty
  /\ \E e \in items : bodies[e].is_deactivated

\* No step of the tick ends in a fault.
C34_NoFault == ~fault

====
